---- MODULE Spec2Model ----
(***************************************************************************)
(* SimpleMem pipeline of moltbot: semantic compression (windows, entropy   *)
(* filter, atomic fact extraction), recursive consolidation and adaptive   *)
(* retrieval, over the SQLite tables atomic_facts, conversation_windows    *)
(* and compression_stats.                                                  *)
(*                                                                         *)
(* Conventions.                                                            *)
(*  - A string of the program is either a TLA+ string (names, topics,      *)
(*    statements, query words) or, for a turn's content, the record of     *)
(*    what the code reads of it: its length and its capitalised runs.      *)
(*  - Real numbers are exact rationals: a confidence is a percentage, a    *)
(*    similarity or a relevance is a pair <<numerator, denominator>>.      *)
(*  - Timestamps and the clock count days.                                 *)
(*  - randomUUID() is a fresh number taken from nextId.                    *)
(*  - undefined / null is the value of the matching No... definition; a    *)
(*    value that may be absent (a call's result, null) is a sequence of    *)
(*    no or one element.                                                   *)
(***************************************************************************)
EXTENDS Integers, Sequences, FiniteSets, TLC

(***************************************************************************)
(* Bounds of the model                                                     *)
(***************************************************************************)
MaxTurns == 2            \* longest transcript given to processTranscript
MaxCalls == 2            \* processTranscript calls per behaviour
MaxRuns == 2             \* runConsolidation calls per behaviour
MaxSearches == 1         \* search calls per behaviour
MaxFaults == 1           \* store writes and LLM calls that fail per behaviour
MaxOps == 2              \* operations started per behaviour
MaxRetrievalFacts == 10  \* facts of one parent handed to adaptiveRetrieve

(***************************************************************************)
(* Configuration the pipeline is constructed with (immutable afterwards).  *)
(* The sizes are small so that every branch is reached with few turns.     *)
(***************************************************************************)
WindowSize == 2          \* compression.windowSize
Stride == 1              \* compression.stride
MaxParallelWorkers == 2  \* compression.maxParallelWorkers
MaxFactsPerWindow == 3   \* compression.maxFactsPerWindow
MinFactsForCluster == 2  \* consolidation.minFactsForCluster
MaxFactsPerCluster == 3  \* consolidation.maxFactsPerCluster
MaxConsolidationLevel == 2 \* consolidation.maxConsolidationLevel

EntropyThresholdPct == 30   \* entropyThreshold 0.3
EntityWeightPct == 50       \* entityWeight 0.5
MinConfidencePct == 70      \* minConfidence 0.7
DefaultConfidencePct == 80  \* confidence given to a fact that has none
SimilarityThresholdPct == 60 \* similarityThreshold 0.6
TemporalWindowDays == 7     \* temporalWindowMs, one week
RecentFactsLimit == 100     \* getRecentFacts(100)

NoId == 0                \* undefined id (parentId)
NoTs == 0 - 1            \* undefined timestamp
NoConf == 0 - 1          \* confidence that is not a number
NoStr == ""              \* undefined / empty string (both falsy)

(***************************************************************************)
(* Small helpers on sequences and sets                                     *)
(***************************************************************************)
Range(s) == {s[i] : i \in 1..Len(s)}

Min2(a, b) == IF a <= b THEN a ELSE b

Abs(a) == IF a >= 0 THEN a ELSE 0 - a

RECURSIVE SumSeq(_)
SumSeq(s) == IF s = <<>> THEN 0 ELSE s[1] + SumSeq(Tail(s))

\* String.prototype.toLowerCase on the names the model uses
ToLowerCase(s) ==
    CASE s = "Alice" -> "alice"
      [] s = "Bob" -> "bob"
      [] s = "Acme" -> "acme"
      [] s = "Globex" -> "globex"
      [] s = "Alice works at Acme" -> "alice works at acme"
      [] s = "alice  works at acme" -> "alice  works at acme"
      [] s = "Alice leads Acme" -> "alice leads acme"
      [] s = "Bob flew to Globex" -> "bob flew to globex"
      [] s = "Bob left Globex" -> "bob left globex"
      [] s = "Acme buys Globex" -> "acme buys globex"
      [] s = "Acme|Globex" -> "acme|globex"
      [] OTHER -> s

\* s.replace(/\s+/g, " ").trim() on the statements the model uses
CollapseWhitespace(s) ==
    CASE s = "alice  works at acme" -> "alice works at acme"
      [] OTHER -> s

(***************************************************************************)
(* Inputs: turns, transcripts, session files                               *)
(***************************************************************************)
TurnAlice == [speaker |-> "Alice", content |-> [len |-> 20, caps |-> <<"Acme">>]]

TurnBob == [speaker |-> "Bob", content |-> [len |-> 90, caps |-> <<"Globex">>]]

RECURSIVE SeqsUpTo(_, _)
SeqsUpTo(S, n) ==
    IF n = 0 THEN {<<>>}
    ELSE LET shorter == SeqsUpTo(S, n - 1)
         IN  shorter \cup {Append(s, x) : s \in {t \in shorter : Len(t) = n - 1}, x \in S}

\* the transcripts given to processTranscript: the empty one and those of
\* MaxTurns turns that Alice opens
Transcripts ==
    {t \in SeqsUpTo({TurnAlice, TurnBob}, MaxTurns) :
       t = <<>> \/ (Len(t) = MaxTurns /\ t[1] = TurnAlice)}

(***************************************************************************)
(* Exact rationals <<numerator, denominator>>, denominator > 0, reduced    *)
(***************************************************************************)
RECURSIVE Gcd(_, _)
Gcd(a, b) == IF b = 0 THEN a ELSE Gcd(b, a % b)

Rat(n, d) ==
    LET g == Gcd(Abs(n), d)
    IN  IF g = 0 THEN <<0, 1>> ELSE <<n \div g, d \div g>>

RAdd(x, y) == Rat(x[1] * y[2] + y[1] * x[2], x[2] * y[2])

RSub(x, y) == Rat(x[1] * y[2] - y[1] * x[2], x[2] * y[2])

RMul(x, y) == Rat(x[1] * y[1], x[2] * y[2])

\* a sum left undivided
RUndivided(x, n) == x

\* x / n for an integer n > 0
RDivInt(x, n) == Rat(x[1], x[2] * n)

RLeq(x, y) == x[1] * y[2] <= y[1] * x[2]

RLess(x, y) == x[1] * y[2] < y[1] * x[2]

Pct(p) == Rat(p, 100)

RECURSIVE RSum(_)
RSum(s) == IF s = <<>> THEN <<0, 1>> ELSE RAdd(s[1], RSum(Tail(s)))

\* Math.ceil(a / b) for integers a >= 0, b > 0
CeilDiv(a, b) == (a + b - 1) \div b

(***************************************************************************)
(* entropy-filter: windows and the entropy filter                          *)
(***************************************************************************)
NoWindowId == <<>>

\* the window id `window_${start}_${end}`: made of the two indices alone
WindowIdOf(start, end) == <<start, end>>

\* a loop that would keep only the windows of windowSize turns
RECURSIVE CreateFullWindowsFrom(_, _, _, _)
CreateFullWindowsFrom(turns, windowSize, stride, i) ==
    IF i + windowSize > Len(turns) THEN <<>>
    ELSE <<[id |-> WindowIdOf(i, i + windowSize - 1),
            turns |-> SubSeq(turns, i + 1, i + windowSize),
            startIndex |-> i,
            endIndex |-> i + windowSize - 1,
            entropy |-> <<>>,
            shouldProcess |-> TRUE]>>
           \o CreateFullWindowsFrom(turns, windowSize, stride, i + stride)

\* createConversationWindows: for (i = 0; i < turns.length; i += stride)
RECURSIVE CreateWindowsFrom(_, _, _, _)
CreateWindowsFrom(turns, windowSize, stride, i) ==
    IF i >= Len(turns) THEN <<>>
    ELSE LET windowTurns == SubSeq(turns, i + 1, Min2(i + windowSize, Len(turns)))
             w == [id |-> WindowIdOf(i, i + Len(windowTurns) - 1),
                   turns |-> windowTurns,
                   startIndex |-> i,
                   endIndex |-> i + Len(windowTurns) - 1,
                   entropy |-> <<>>,
                   shouldProcess |-> TRUE]
             rest == CreateWindowsFrom(turns, windowSize, stride, i + stride)
         IN  IF Len(windowTurns) > 0 THEN <<w>> \o rest ELSE rest

createConversationWindows(turns, windowSize, stride) ==
    CreateWindowsFrom(turns, windowSize, stride, 0)

\* extractEntitiesFromWindow: the capitalised runs of every turn's content
\* and every non-empty speaker name
extractEntitiesFromWindow(window) ==
    UNION {Range(window.turns[i].content.caps) : i \in 1..Len(window.turns)}
      \cup {window.turns[i].speaker : i \in {j \in 1..Len(window.turns) :
                                               window.turns[j].speaker # NoStr}}

\* the lower-cased entities and persons of the previous facts
PreviousEntities(previousFacts) ==
    UNION {{ToLowerCase(e) : e \in Range(previousFacts[i].entities)}
             \cup {ToLowerCase(p) : p \in Range(previousFacts[i].persons)} :
           i \in 1..Len(previousFacts)}

NewEntities(window, previousFacts) ==
    {e \in extractEntitiesFromWindow(window) :
       ToLowerCase(e) \notin PreviousEntities(previousFacts)}

\* The entropy score alpha * n / sqrt(size) + (1 - alpha) * 0.5 (no embeddings
\* are passed by the pipeline, so the divergence is the constant 0.5; the
\* novelty is 0 for size 0) is kept as the pair <<n, size>> it is computed from.
EntropyScore(window, previousFacts) ==
    <<Cardinality(NewEntities(window, previousFacts)),
      SumSeq([i \in 1..Len(window.turns) |-> window.turns[i].content.len])>>

\* a decision that would drop a window whose score is the threshold
EntropyAbove(score, alphaPct, thresholdPct) ==
    LET n == score[1]
        size == score[2]
        rhs == 2 * thresholdPct - (100 - alphaPct)
    IN  IF rhs < 0 THEN TRUE
        ELSE IF size = 0 THEN FALSE
        ELSE (2 * alphaPct * n) * (2 * alphaPct * n) > rhs * rhs * size

\* score >= threshold, decided exactly:
\*   alpha*n/sqrt(size) + (100-alpha)/2 >= thr  (percent)
\*   <=>  2*alpha*n/sqrt(size) >= 2*thr - (100-alpha)
EntropyAtLeast(score, alphaPct, thresholdPct) ==
    LET n == score[1]
        size == score[2]
        rhs == 2 * thresholdPct - (100 - alphaPct)
    IN  IF rhs <= 0 THEN TRUE
        ELSE IF size = 0 THEN FALSE
        ELSE (2 * alphaPct * n) * (2 * alphaPct * n) >= rhs * rhs * size

calculateWindowEntropy(window, previousFacts) ==
    LET score == EntropyScore(window, previousFacts)
    IN  [window |-> window,
         score |-> score,
         newEntities |-> NewEntities(window, previousFacts),
         shouldKeep |-> EntropyAtLeast(score, EntityWeightPct, EntropyThresholdPct)]

\* filterWindowsByEntropy: one result per window; the score and the decision
\* are written back on the window
filterWindowsByEntropy(windows, previousFacts) ==
    [i \in 1..Len(windows) |->
        LET r == calculateWindowEntropy(windows[i], previousFacts)
        IN  [r EXCEPT !.window = [windows[i] EXCEPT !.entropy = r.score,
                                                    !.shouldProcess = r.shouldKeep]]]

\* calculateFilterStats(...).avgEntropy: sum / results.length, kept as the list
\* of the scores; it is NaN (0 / 0) for the empty list
AvgEntropy(filterResults) == [i \in 1..Len(filterResults) |-> filterResults[i].score]

\* the numbers that are no ratio of integers
NaN == <<0, 0>>

Infinity == <<1, 0>>

WindowsToProcess(filterResults) ==
    LET kept == SelectSeq(filterResults, LAMBDA r : r.shouldKeep)
    IN  [i \in 1..Len(kept) |-> kept[i].window]

(***************************************************************************)
(* atomic-fact-extractor: what the Extractor LLM may answer for a window   *)
(***************************************************************************)
FactData(statement, keywords, persons, entities, topic, timestamp, confidence) ==
    [statement |-> statement, keywords |-> keywords, persons |-> persons,
     entities |-> entities, topic |-> topic, timestamp |-> timestamp,
     location |-> NoStr, confidence |-> confidence]

FdAliceWorks ==
    FactData("Alice works at Acme", <<"works">>, <<"Alice">>, <<"Acme">>, "employment", 1, 90)

\* the same statement up to letter case and spacing; no confidence given
FdAliceWorksAgain ==
    FactData("alice  works at acme", <<"works">>, <<"Alice">>, <<"Acme">>, "employment", 2, NoConf)

FdAliceLeads ==
    FactData("Alice leads Acme", <<"leads">>, <<"Alice">>, <<"Acme">>, "employment", 2, 90)

FdBobFlew ==
    FactData("Bob flew to Globex", <<"flew">>, <<"Bob">>, <<"Globex">>, "travel", 1, 90)

FdBobLeft ==
    FactData("Bob left Globex", <<"left">>, <<"Bob">>, <<"Globex">>, "travel", NoTs, 100)

FdUnsure ==
    FactData("Bob left Globex", <<>>, <<"Bob">>, <<>>, NoStr, NoTs, 30)

\* a fact about two entities and no person, and the same fact with the two
\* entities given as one name
FdMerger ==
    FactData("Acme buys Globex", <<"buys">>, <<>>, <<"Globex", "Acme">>, "business", 3, 90)

FdMergerOneName ==
    FactData("Acme buys Globex", <<"buys">>, <<>>, <<"Acme|Globex">>, "business", 3, 90)

\* A response: the LLM call rejects ("reject"), the text is not JSON or has
\* no facts array ("unparseable"), or the parsed facts array.
RespFacts(fs) == [kind |-> "json", facts |-> fs]

RespAlice == RespFacts(<<FdAliceWorks, FdUnsure, FdAliceWorksAgain, FdAliceLeads>>)

RespBob == RespFacts(<<FdBobFlew, FdBobLeft>>)

ExtractorResponses ==
    {[kind |-> "reject", facts |-> <<>>], [kind |-> "unparseable", facts |-> <<>>],
     RespAlice, RespBob}

\* parseExtractionResult: throws on text that is no JSON with a facts array
\* and on a fact without a statement; a confidence that is no number becomes 0.8
ParseThrows(response) ==
    \/ response.kind # "json"
    \/ \E i \in 1..Len(response.facts) : response.facts[i].statement = NoStr

\* the facts array as the LLM gave it
ParsedAsGiven(response) == response.facts

parseExtractionResult(response) ==
    [i \in 1..Len(response.facts) |->
        IF response.facts[i].confidence = NoConf
        THEN [response.facts[i] EXCEPT !.confidence = DefaultConfidencePct]
        ELSE response.facts[i]]

\* the loop of extractAtomicFacts: `continue` below minConfidence, `break` once
\* maxFactsPerWindow facts are accepted; ids are taken from firstId onwards
RECURSIVE ExtractLoop(_, _, _, _, _)
ExtractLoop(factData, window, now, firstId, accepted) ==
    IF factData = <<>> THEN <<>>
    ELSE LET fd == factData[1]
         IN  IF fd.confidence < MinConfidencePct
             THEN ExtractLoop(Tail(factData), window, now, firstId, accepted)
             ELSE IF accepted >= MaxFactsPerWindow THEN <<>>
             ELSE <<[id |-> firstId + accepted,
                     statement |-> fd.statement,
                     keywords |-> fd.keywords,
                     persons |-> fd.persons,
                     entities |-> fd.entities,
                     topic |-> fd.topic,
                     timestamp |-> fd.timestamp,
                     location |-> fd.location,
                     sourceWindowId |-> window.id,
                     sourceSessionFile |-> NoStr,
                     confidence |-> Pct(fd.confidence),
                     extractedAt |-> now,
                     level |-> 0,
                     parentId |-> NoId]>>
                  \o ExtractLoop(Tail(factData), window, now, firstId, accepted + 1)

\* extractAtomicFacts after the LLM answered with a response that parses
extractAtomicFacts(window, response, now, firstId) ==
    ExtractLoop(parseExtractionResult(response), window, now, firstId, 0)

\* extractAtomicFactsBatch: chunk k (from 1) holds the windows
\* (k-1)*maxConcurrent+1 .. k*maxConcurrent
ChunkCount(n, maxConcurrent) == CeilDiv(n, maxConcurrent)

\* every window taken as one chunk
AllMembers(n, maxConcurrent, k) == 1..n

ChunkMembers(n, maxConcurrent, k) ==
    {i \in 1..n : (k - 1) * maxConcurrent < i /\ i <= k * maxConcurrent}

RECURSIVE CountIn(_, _)
CountIn(x, s) ==
    IF s = <<>> THEN 0 ELSE (IF s[1] = x THEN 1 ELSE 0) + CountIn(x, Tail(s))

\* the names the model uses in the order of Array.prototype.sort (by UTF-16
\* code units)
NameOrder == <<"Acme", "Acme|Globex", "Alice", "Bob", "Globex">>

\* [...xs].sort(), from the k-th name of NameOrder onwards
RECURSIVE SortedFrom(_, _)
SortedFrom(xs, k) ==
    IF k > Len(NameOrder) THEN <<>>
    ELSE [j \in 1..CountIn(NameOrder[k], xs) |-> NameOrder[k]] \o SortedFrom(xs, k + 1)

\* xs.join(sep)
RECURSIVE Join(_, _)
Join(xs, sep) ==
    IF xs = <<>> THEN ""
    ELSE IF Len(xs) = 1 THEN xs[1]
    ELSE xs[1] \o sep \o Join(Tail(xs), sep)

\* [...xs].sort().join("|")
SortedJoin(xs) == Join(SortedFrom(xs, 1), "|")

\* `${normalizedStatement}::${sortedEntities}::${sortedPersons}`
normalizeFactKey(fact) ==
    CollapseWhitespace(ToLowerCase(fact.statement))
      \o "::" \o SortedJoin(fact.entities) \o "::" \o SortedJoin(fact.persons)

\* deduplicateAtomicFacts: the first fact of every key, in input order
RECURSIVE DedupLoop(_, _)
DedupLoop(fs, seen) ==
    IF fs = <<>> THEN <<>>
    ELSE LET key == normalizeFactKey(fs[1])
         IN  IF key \in seen THEN DedupLoop(Tail(fs), seen)
             ELSE <<fs[1]>> \o DedupLoop(Tail(fs), seen \cup {key})

deduplicateAtomicFacts(fs) == DedupLoop(fs, {})

(***************************************************************************)
(* consolidation: similarity, clustering, consolidation of a cluster       *)
(***************************************************************************)
ConsolidationConfig(entityClustering, topicClustering, temporalClustering) ==
    [entityClustering |-> entityClustering,
     topicClustering |-> topicClustering,
     temporalClustering |-> temporalClustering,
     temporalWindow |-> TemporalWindowDays,
     similarityThreshold |-> Pct(SimilarityThresholdPct),
     minFactsForCluster |-> MinFactsForCluster,
     maxFactsPerCluster |-> MaxFactsPerCluster,
     maxConsolidationLevel |-> MaxConsolidationLevel]

\* the dimensions of DEFAULT_CONSOLIDATION_CONFIG, all enabled
DEFAULT_CONSOLIDATION_CONFIG == ConsolidationConfig(TRUE, TRUE, TRUE)

LowerSet(xs) == {ToLowerCase(x) : x \in Range(xs)}

\* |A n B| / |A u B| * 0.3, nothing for an empty union
OverlapScore(xs1, xs2) ==
    LET s1 == LowerSet(xs1)
        s2 == LowerSet(xs2)
    IN  IF Cardinality(s1 \cup s2) > 0
        THEN RMul(Rat(Cardinality(s1 \cap s2), Cardinality(s1 \cup s2)), Rat(3, 10))
        ELSE <<0, 1>>

\* totalWeight > 0 ? score / totalWeight : 0
NormalisedScore(s, w) == IF w[1] > 0 THEN Rat(s[1] * w[2], s[2] * w[1]) ELSE <<0, 1>>

calculateFactSimilarity(fact1, fact2, config) ==
    LET entityOn == config.entityClustering
        topicOn == config.topicClustering /\ fact1.topic # NoStr /\ fact2.topic # NoStr
        timeOn == config.temporalClustering /\ fact1.timestamp # NoTs /\ fact2.timestamp # NoTs
        timeDiff == Abs(fact1.timestamp - fact2.timestamp)
        score == <<IF entityOn THEN OverlapScore(fact1.entities, fact2.entities) ELSE <<0, 1>>,
                   IF entityOn THEN OverlapScore(fact1.persons, fact2.persons) ELSE <<0, 1>>,
                   IF topicOn /\ ToLowerCase(fact1.topic) = ToLowerCase(fact2.topic)
                      THEN Rat(2, 10) ELSE <<0, 1>>,
                   IF timeOn /\ timeDiff <= config.temporalWindow
                      THEN RMul(RSub(<<1, 1>>, Rat(timeDiff, config.temporalWindow)), Rat(2, 10))
                      ELSE <<0, 1>>>>
        weights == <<IF entityOn THEN Rat(3, 10) ELSE <<0, 1>>,
                     IF entityOn THEN Rat(3, 10) ELSE <<0, 1>>,
                     IF topicOn THEN Rat(2, 10) ELSE <<0, 1>>,
                     IF timeOn THEN Rat(2, 10) ELSE <<0, 1>>>>
    IN  NormalisedScore(RSum(score), RSum(weights))

\* The comparators handed to Array.prototype.sort.
\*  "timestamp" (clusterAtomicFacts): the difference of the two timestamps
\*     when both facts have one, 0 otherwise;
\*  "relevance" (adaptiveRetrieve): b.relevanceScore - a.relevanceScore.
Compare(mode, a, b) ==
    IF mode = "timestamp"
    THEN IF a.timestamp # NoTs /\ b.timestamp # NoTs THEN a.timestamp - b.timestamp ELSE 0
    ELSE IF RLess(a.relevanceScore, b.relevanceScore) THEN 1
    ELSE IF RLess(b.relevanceScore, a.relevanceScore) THEN 0 - 1
    ELSE 0

\* Array.prototype.sort as V8 runs it on an array shorter than 64 (one run):
\* the initial run is counted (and reversed when strictly descending), the
\* other elements are inserted by binary search.
RECURSIVE RunLength(_, _, _, _)
RunLength(a, idx, descending, mode) ==
    IF idx > Len(a) THEN idx - 1
    ELSE LET order == Compare(mode, a[idx], a[idx - 1])
         IN  IF (descending /\ order >= 0) \/ (~descending /\ order < 0) THEN idx - 1
             ELSE RunLength(a, idx + 1, descending, mode)

Reverse(s) == [i \in 1..Len(s) |-> s[Len(s) + 1 - i]]

\* left and right count from 0 as in the source; a[mid + 1] is element mid
RECURSIVE BinarySearch(_, _, _, _, _)
BinarySearch(a, pivot, left, right, mode) ==
    IF left >= right THEN left
    ELSE LET mid == left + ((right - left) \div 2)
         IN  IF Compare(mode, pivot, a[mid + 1]) < 0
             THEN BinarySearch(a, pivot, left, mid, mode)
             ELSE BinarySearch(a, pivot, mid + 1, right, mode)

RECURSIVE BinaryInsertionSort(_, _, _)
BinaryInsertionSort(a, start, mode) ==
    IF start > Len(a) THEN a
    ELSE LET pivot == a[start]
             left == BinarySearch(a, pivot, 0, start - 1, mode)
             moved == SubSeq(a, 1, left) \o <<pivot>> \o SubSeq(a, left + 1, start - 1)
                        \o SubSeq(a, start + 1, Len(a))
         IN  BinaryInsertionSort(moved, start + 1, mode)

ArraySort(a, mode) ==
    IF Len(a) < 2 THEN a
    ELSE LET descending == Compare(mode, a[2], a[1]) < 0
             run == RunLength(a, 3, descending, mode)
             made == IF descending
                     THEN Reverse(SubSeq(a, 1, run)) \o SubSeq(a, run + 1, Len(a))
                     ELSE a
         IN  BinaryInsertionSort(made, run + 1, mode)

\* the average similarity of a candidate to the facts already in the cluster
AvgSimilarity(cluster, candidate, config) ==
    RDivInt(RSum([i \in 1..Len(cluster) |->
                     calculateFactSimilarity(cluster[i], candidate, config)]),
            Len(cluster))

\* the inner loop of clusterAtomicFacts: the candidates in sorted order,
\* skipping assigned facts, stopping at a full cluster
RECURSIVE GrowCluster(_, _, _, _)
GrowCluster(cluster, candidates, assigned, config) ==
    IF candidates = <<>> THEN cluster
    ELSE LET candidate == candidates[1]
         IN  IF candidate.id \in assigned \/ candidate.id \in {cluster[i].id : i \in 1..Len(cluster)}
             THEN GrowCluster(cluster, Tail(candidates), assigned, config)
             ELSE IF Len(cluster) >= config.maxFactsPerCluster THEN cluster
             ELSE IF RLeq(config.similarityThreshold, AvgSimilarity(cluster, candidate, config))
             THEN GrowCluster(Append(cluster, candidate), Tail(candidates), assigned, config)
             ELSE GrowCluster(cluster, Tail(candidates), assigned, config)

\* the outer loop: every unassigned fact seeds a cluster; its members are
\* assigned whether or not the cluster is kept
RECURSIVE SeedLoop(_, _, _, _)
SeedGrown(cluster, seeds, sortedFacts, assigned, config) ==
    (IF Len(cluster) >= config.minFactsForCluster THEN <<cluster>> ELSE <<>>)
      \o SeedLoop(Tail(seeds), sortedFacts,
                  assigned \cup {cluster[i].id : i \in 1..Len(cluster)}, config)

SeedLoop(seeds, sortedFacts, assigned, config) ==
    IF seeds = <<>> THEN <<>>
    ELSE IF seeds[1].id \in assigned
    THEN SeedLoop(Tail(seeds), sortedFacts, assigned, config)
    ELSE SeedGrown(GrowCluster(<<seeds[1]>>, sortedFacts, assigned \cup {seeds[1].id}, config),
                   seeds, sortedFacts, assigned, config)

\* the first topic with the highest count, in order of first appearance
RECURSIVE ModalTopic(_, _, _)
ModalTopic(fs, i, best) ==
    IF i > Len(fs) THEN best
    ELSE LET Count(t) == Cardinality({j \in 1..Len(fs) : fs[j].topic = t})
         IN  IF fs[i].topic # NoStr /\ (best = NoStr \/ Count(fs[i].topic) > Count(best))
             THEN ModalTopic(fs, i + 1, fs[i].topic)
             ELSE ModalTopic(fs, i + 1, best)

SetMin(S) == CHOOSE x \in S : \A y \in S : x <= y

SetMax(S) == CHOOSE x \in S : \A y \in S : x >= y

NoTimeRange == <<>>

\* the mean similarity of the pairs i < j under DEFAULT_CONSOLIDATION_CONFIG
CoherenceScore(fs) ==
    LET pairs == {p \in (1..Len(fs)) \X (1..Len(fs)) : p[1] < p[2]}
        PairSeq == [p \in pairs |-> calculateFactSimilarity(fs[p[1]], fs[p[2]],
                                                            DEFAULT_CONSOLIDATION_CONFIG)]
        sims == [i \in 1..Len(fs) |->
                    RSum([j \in 1..Len(fs) |->
                            IF i < j THEN PairSeq[<<i, j>>] ELSE <<0, 1>>])]
    IN  IF pairs = {} THEN <<0, 1>> ELSE RDivInt(RSum(sims), Cardinality(pairs))

createCluster(fs, id, now) ==
    LET stamps == {fs[i].timestamp : i \in 1..Len(fs)} \ {NoTs}
    IN  [id |-> id,
         facts |-> fs,
         topic |-> ModalTopic(fs, 1, NoStr),
         commonEntities |-> {e \in LowerSet(fs[1].entities) :
                               \A i \in 1..Len(fs) : e \in LowerSet(fs[i].entities)},
         commonPersons |-> {p \in LowerSet(fs[1].persons) :
                              \A i \in 1..Len(fs) : p \in LowerSet(fs[i].persons)},
         timeRange |-> IF stamps = {} THEN NoTimeRange ELSE <<SetMin(stamps), SetMax(stamps)>>,
         coherenceScore |-> CoherenceScore(fs),
         createdAt |-> now]

\* the kept groups as clusters, which take the ids firstId, firstId + 1, ...
NumberClusters(groups, firstId, now) ==
    [k \in 1..Len(groups) |-> createCluster(groups[k], firstId + k - 1, now)]

ClusterSorted(sortedFacts, config, firstId, now) ==
    NumberClusters(SeedLoop(sortedFacts, sortedFacts, {}, config), firstId, now)

clusterAtomicFacts(fs, config, firstId, now) ==
    IF Len(fs) < config.minFactsForCluster THEN <<>>
    ELSE ClusterSorted(ArraySort(fs, "timestamp"), config, firstId, now)

\* Array.from(new Set(...)) over the concatenated lists: first occurrences
RECURSIVE Distinct(_, _)
Distinct(xs, seen) ==
    IF xs = <<>> THEN <<>>
    ELSE IF xs[1] \in seen THEN Distinct(Tail(xs), seen)
    ELSE <<xs[1]>> \o Distinct(Tail(xs), seen \cup {xs[1]})

RECURSIVE Concat(_)
FirstOf(ss) == IF ss = <<>> THEN <<>> ELSE ss[1]

Concat(ss) == IF ss = <<>> THEN <<>> ELSE ss[1] \o Concat(Tail(ss))

FirstLocation(fs) ==
    LET with == SelectSeq(fs, LAMBDA f : f.location # NoStr)
    IN  IF with = <<>> THEN NoStr ELSE with[1].location

\* consolidateCluster once the LLM answered with consolidatedStatement
consolidateCluster(cluster, consolidatedStatement, id, now) ==
    LET fs == cluster.facts
    IN  [id |-> id,
         statement |-> consolidatedStatement,
         keywords |-> Distinct(Concat([i \in 1..Len(fs) |-> fs[i].keywords]), {}),
         persons |-> Distinct(Concat([i \in 1..Len(fs) |-> fs[i].persons]), {}),
         entities |-> Distinct(Concat([i \in 1..Len(fs) |-> fs[i].entities]), {}),
         topic |-> cluster.topic,
         timestamp |-> IF cluster.timeRange = NoTimeRange THEN NoTs ELSE cluster.timeRange[1],
         location |-> FirstLocation(fs),
         sourceWindowId |-> NoWindowId,
         sourceSessionFile |-> NoStr,
         confidence |-> RDivInt(RSum([i \in 1..Len(fs) |-> fs[i].confidence]), Len(fs)),
         extractedAt |-> now,
         level |-> SetMax({fs[i].level : i \in 1..Len(fs)}) + 1,
         parentId |-> cluster.id]

\* what the Consolidation LLM may answer for a cluster
ConsolidatorResponses == {"reject", "Summary of the related facts"}

(***************************************************************************)
(* adaptive-retrieval                                                      *)
(* A query is the sequence of its words (the text between white space);    *)
(* `text.includes(word)` is decided on the words of the text.              *)
(***************************************************************************)
\* words matched by [A-Z][a-z]+
CapitalisedWords == {"Alice", "Bob", "Acme", "Globex", "Where", "Why", "What", "Tell"}

QueryLower(w) ==
    CASE w = "Where" -> "where"
      [] w = "Why" -> "why"
      [] w = "What" -> "what"
      [] w = "Tell" -> "tell"
      [] OTHER -> ToLowerCase(w)

\* the lower-cased words of a statement and of a keyword
WordsOf(text) ==
    CASE text = "Alice works at Acme" -> <<"alice", "works", "at", "acme">>
      [] text = "alice  works at acme" -> <<"alice", "works", "at", "acme">>
      [] text = "Alice leads Acme" -> <<"alice", "leads", "acme">>
      [] text = "Bob flew to Globex" -> <<"bob", "flew", "to", "globex">>
      [] text = "Bob left Globex" -> <<"bob", "left", "globex">>
      [] text = "Summary of the related facts" -> <<"summary", "of", "the", "related", "facts">>
      [] text = NoStr -> <<>>
      [] OTHER -> <<ToLowerCase(text)>>

StopWords ==
    {"what", "when", "where", "who", "why", "how", "the", "a", "an", "is", "are", "was",
     "were", "did", "do", "does", "have", "has", "had", "about", "tell", "me"}

TemporalKeywords ==
    {"recent", "lately", "yesterday", "today", "last", "this", "next", "ago", "before",
     "after", "when"}

\* the one-word topic indicators and the two-word indicator "related to"
TopicIndicators == <<<<"about">>, <<"regarding">>, <<"concerning">>, <<"related", "to">>>>

ReasoningIndicators ==
    {"why", "how", "explain", "compare", "difference", "relationship", "cause", "effect",
     "reason", "analysis"}

\* query.toLowerCase().split(/\s+/): the empty query splits into one empty word
QueryWords(query) ==
    IF query = <<>> THEN <<NoStr>> ELSE [i \in 1..Len(query) |-> QueryLower(query[i])]

\* the matches of /\b[A-Z][a-z]+(?:\s+[A-Z][a-z]+)*\b/g: the maximal runs of
\* capitalised words, each joined by one space
RECURSIVE CapitalisedRuns(_, _)
CapitalisedRuns(query, run) ==
    IF query = <<>> THEN (IF run = NoStr THEN <<>> ELSE <<run>>)
    ELSE IF query[1] \in CapitalisedWords
    THEN CapitalisedRuns(Tail(query), IF run = NoStr THEN query[1] ELSE run \o " " \o query[1])
    ELSE (IF run = NoStr THEN <<>> ELSE <<run>>) \o CapitalisedRuns(Tail(query), NoStr)

\* the first position at or after `from` where the words of `indicator` stand, 0 if none
RECURSIVE IndexOfWords(_, _, _)
IndexOfWords(words, indicator, from) ==
    IF from + Len(indicator) - 1 > Len(words) THEN 0
    ELSE IF SubSeq(words, from, from + Len(indicator) - 1) = indicator THEN from
    ELSE IndexOfWords(words, indicator, from + 1)

\* split(indicator)[1].trim().split(/\s+/).slice(0, 3): the first three words
\* between the first and the second occurrence of the indicator
AfterIndicator(words, indicator) ==
    LET first == IndexOfWords(words, indicator, 1)
        start == first + Len(indicator)
        second == IndexOfWords(words, indicator, start)
        between == SubSeq(words, start, IF second = 0 THEN Len(words) ELSE second - 1)
    IN  SubSeq(between, 1, Min2(3, Len(between)))

QueryTopics(words) ==
    LET found == SelectSeq(TopicIndicators,
                           LAMBDA ind : IndexOfWords(words, ind, 1) # 0
                                          /\ AfterIndicator(words, ind) # <<>>)
    IN  [i \in 1..Len(found) |-> AfterIndicator(words, found[i])]

\* rules whose word counts 15 and 8 already count
QueryComplexityInclusive(wordCount, entities, hasTemporal, topics, requiresReasoning) ==
    IF requiresReasoning \/ wordCount >= 15 \/ Len(topics) > 0 THEN "complex"
    ELSE IF wordCount >= 8 \/ Len(entities) > 2 \/ hasTemporal THEN "moderate"
    ELSE "simple"

\* the complexity rules of analyzeQuery
QueryComplexity(wordCount, entities, hasTemporal, topics, requiresReasoning) ==
    IF requiresReasoning \/ wordCount > 15 \/ Len(topics) > 0 THEN "complex"
    ELSE IF wordCount > 8 \/ Len(entities) > 2 \/ hasTemporal THEN "moderate"
    ELSE "simple"

\* the QueryAnalysis object analyzeQuery returns
QueryAnalysis(query, complexity, keywords, entities, temporalWords, topics, reasoning) ==
    [query |-> query,
     complexity |-> complexity,
     estimatedTokens |-> IF complexity = "complex" THEN 3000
                         ELSE IF complexity = "moderate" THEN 1500 ELSE 500,
     keywords |-> keywords,
     entities |-> entities,
     temporal |-> IF temporalWords # <<>> THEN temporalWords[1] ELSE NoStr,
     topics |-> topics,
     requiresReasoning |-> reasoning]

\* analyzeQuery once the words, entities, temporal words and topics are found
AnalyzeWords(query, words, entities, temporalWords, topics, requiresReasoning) ==
    QueryAnalysis(query,
                  QueryComplexity(Len(words), entities, temporalWords # <<>>, topics,
                                  requiresReasoning),
                  SelectSeq(words, LAMBDA w : Len(w) > 2 /\ w \notin StopWords),
                  entities, temporalWords, topics, requiresReasoning)

analyzeWordsOf(query, words) ==
    AnalyzeWords(query, words,
                 Distinct(CapitalisedRuns(query, NoStr), {}),
                 SelectSeq(words, LAMBDA w : w \in TemporalKeywords),
                 QueryTopics(words),
                 \E i \in 1..Len(words) : words[i] \in ReasoningIndicators)

analyzeQuery(query) == analyzeWordsOf(query, QueryWords(query))

RetrievalConfig(simple, moderate, complex, preferConsolidated, includeParents, chars) ==
    [simpleQueryTokens |-> simple,
     moderateQueryTokens |-> moderate,
     complexQueryTokens |-> complex,
     preferConsolidated |-> preferConsolidated,
     includeParents |-> includeParents,
     charsPerToken |-> chars]

Weights(keyword, entity, topic, temporal, recency) ==
    [keyword |-> Pct(keyword), entity |-> Pct(entity), topic |-> Pct(topic),
     temporal |-> Pct(temporal), recency |-> Pct(recency)]

determineRetrievalStrategy(analysis, config) ==
    CASE analysis.complexity = "simple" ->
           [complexity |-> "simple", maxFacts |-> 5,
            preferConsolidated |-> config.preferConsolidated,
            includeHierarchy |-> FALSE,
            maxTokens |-> config.simpleQueryTokens,
            weights |-> Weights(40, 30, 10, 10, 10)]
      [] analysis.complexity = "moderate" ->
           [complexity |-> "moderate", maxFacts |-> 10,
            preferConsolidated |-> config.preferConsolidated,
            includeHierarchy |-> config.includeParents,
            maxTokens |-> config.moderateQueryTokens,
            weights |-> Weights(30, 30, 20, 10, 10)]
      [] analysis.complexity = "complex" ->
           [complexity |-> "complex", maxFacts |-> 20,
            preferConsolidated |-> FALSE,
            includeHierarchy |-> config.includeParents,
            maxTokens |-> config.complexQueryTokens,
            weights |-> Weights(25, 25, 25, 15, 10)]

\* topic.includes(t): the words of t stand in the words of the topic
IncludesWords(text, part) == IndexOfWords(text, part, 1) # 0

calculateRelevance(fact, analysis, strategy, now) ==
    LET factText == WordsOf(fact.statement) \o Concat([i \in 1..Len(fact.keywords) |->
                                                          WordsOf(fact.keywords[i])])
        matchingKeywords == SelectSeq(analysis.keywords, LAMBDA kw : kw \in Range(factText))
        keywordScore ==
            IF Len(matchingKeywords) > 0
            THEN RMul(Rat(Len(matchingKeywords), Len(analysis.keywords)), strategy.weights.keyword)
            ELSE <<0, 1>>
        factEntities == LowerSet(fact.entities) \cup LowerSet(fact.persons)
        matchingEntities == SelectSeq(analysis.entities,
                                      LAMBDA e : ToLowerCase(e) \in factEntities)
        entityScore ==
            IF Len(matchingEntities) > 0
            THEN RMul(Rat(Len(matchingEntities), (IF Len(analysis.entities) >= 1 THEN Len(analysis.entities) ELSE 1)),
                      strategy.weights.entity)
            ELSE <<0, 1>>
        topicMatches ==
            /\ fact.topic # NoStr
            /\ \E i \in 1..Len(analysis.topics) :
                  IncludesWords(WordsOf(fact.topic), analysis.topics[i])
        daysSince == now - fact.timestamp
        temporalScore ==
            IF fact.timestamp # NoTs /\ analysis.temporal # NoStr
            THEN IF daysSince <= 7 THEN strategy.weights.temporal
                 ELSE IF daysSince <= 30 THEN RDivInt(strategy.weights.temporal, 2)
                 ELSE <<0, 1>>
            ELSE <<0, 1>>
        factAge == now - fact.extractedAt
        recencyScore ==
            IF factAge >= 90 THEN <<0, 1>>
            ELSE RMul(RSub(<<1, 1>>, Rat(factAge, 90)), strategy.weights.recency)
    IN  [score |-> RSum(<<keywordScore, entityScore,
                         IF topicMatches THEN strategy.weights.topic ELSE <<0, 1>>,
                         temporalScore, recencyScore>>),
         reasons |-> (IF Len(matchingKeywords) > 0 THEN <<"Keyword match">> ELSE <<>>)
                       \o (IF Len(matchingEntities) > 0 THEN <<"Entity match">> ELSE <<>>)
                       \o (IF topicMatches THEN <<"Topic match">> ELSE <<>>)
                       \o (IF fact.timestamp # NoTs /\ analysis.temporal # NoStr
                              /\ daysSince <= 30 THEN <<"Recent fact">> ELSE <<>>)]

EstimatedTokens(fact, config) == CeilDiv(Len(fact.statement), config.charsPerToken)

\* a loop that would pass over a fact over budget and go on with the next
RECURSIVE SelectLoopSkipping(_, _, _, _)
SelectLoopSkipping(scoredFacts, strategy, count, totalTokens) ==
    IF scoredFacts = <<>> THEN <<>>
    ELSE IF count >= strategy.maxFacts THEN <<>>
    ELSE IF totalTokens + scoredFacts[1].estimatedTokens > strategy.maxTokens
    THEN SelectLoopSkipping(Tail(scoredFacts), strategy, count, totalTokens)
    ELSE <<scoredFacts[1]>>
           \o SelectLoopSkipping(Tail(scoredFacts), strategy, count + 1,
                                 totalTokens + scoredFacts[1].estimatedTokens)

\* the selection loop: stop at maxFacts facts or at the first fact over budget
RECURSIVE SelectLoop(_, _, _, _)
SelectLoop(scoredFacts, strategy, count, totalTokens) ==
    IF scoredFacts = <<>> THEN <<>>
    ELSE IF count >= strategy.maxFacts THEN <<>>
    ELSE IF totalTokens + scoredFacts[1].estimatedTokens > strategy.maxTokens THEN <<>>
    ELSE <<scoredFacts[1]>>
           \o SelectLoop(Tail(scoredFacts), strategy, count + 1,
                         totalTokens + scoredFacts[1].estimatedTokens)

TotalTokens(selected) ==
    SumSeq([i \in 1..Len(selected) |-> selected[i].estimatedTokens])

\* the parent loop: every fact whose id is a selected fact's parentId is
\* appended when it fits the token budget
RECURSIVE ParentLoop(_, _, _, _)
ParentLoop(parents, config, strategy, totalTokens) ==
    IF parents = <<>> THEN <<>>
    ELSE LET estimatedTokens == EstimatedTokens(parents[1], config)
         IN  IF totalTokens + estimatedTokens <= strategy.maxTokens
             THEN <<[fact |-> parents[1],
                     relevanceScore |-> Rat(1, 2),
                     matchReasons |-> <<"Parent fact for context">>,
                     estimatedTokens |-> estimatedTokens]>>
                    \o ParentLoop(Tail(parents), config, strategy, totalTokens + estimatedTokens)
             ELSE ParentLoop(Tail(parents), config, strategy, totalTokens)

\* one candidate with its relevance and its token estimate
ScoredFact(fact, r, config) ==
    [fact |-> fact,
     relevanceScore |-> r.score,
     matchReasons |-> r.reasons,
     estimatedTokens |-> EstimatedTokens(fact, config)]

ScoreFacts(candidateFacts, analysis, strategy, config, now) ==
    [i \in 1..Len(candidateFacts) |->
        ScoredFact(candidateFacts[i],
                   calculateRelevance(candidateFacts[i], analysis, strategy, now), config)]

\* candidates that would be all facts whatever the strategy prefers
CandidateFactsOfAll(allFacts, consolidated, strategy) == allFacts

\* the consolidated facts when they are preferred and there are some
CandidateFacts(allFacts, consolidated, strategy) ==
    IF strategy.preferConsolidated /\ Len(consolidated) > 0 THEN consolidated ELSE allFacts

\* allFacts.filter((f) => parentIds.has(f.id))
ParentsById(allFacts, parentIds) == SelectSeq(allFacts, LAMBDA f : f.id \in parentIds)

ParentsOf(selectedFacts, allFacts) ==
    ParentsById(allFacts,
                {selectedFacts[i].fact.parentId : i \in 1..Len(selectedFacts)} \ {NoId})

WithParents(selectedFacts, allFacts, config, strategy) ==
    IF strategy.includeHierarchy
    THEN selectedFacts \o ParentLoop(ParentsOf(selectedFacts, allFacts), config, strategy,
                                     TotalTokens(selectedFacts))
    ELSE selectedFacts

RetrievalResult(selectedFacts, strategy, analysis, allFacts) ==
    [facts |-> selectedFacts,
     totalTokens |-> TotalTokens(selectedFacts),
     strategy |-> strategy,
     analysis |-> analysis,
     factsAvailable |-> Len(allFacts)]

\* adaptiveRetrieve from the strategy on: score, sort, select, add the parents
RetrieveWith(analysis, strategy, allFacts, config, now) ==
    RetrievalResult(
        WithParents(
            SelectLoop(
                ArraySort(
                    ScoreFacts(CandidateFacts(allFacts,
                                              SelectSeq(allFacts, LAMBDA f : f.level > 0),
                                              strategy),
                               analysis, strategy, config, now),
                    "relevance"),
                strategy, 0, 0),
            allFacts, config, strategy),
        strategy, analysis, allFacts)

RetrieveFor(analysis, allFacts, config, now) ==
    RetrieveWith(analysis, determineRetrievalStrategy(analysis, config), allFacts, config, now)

adaptiveRetrieve(query, allFacts, config, now) ==
    RetrieveFor(analyzeQuery(query), allFacts, config, now)

(***************************************************************************)
(* simplemem-pipeline: the state of a SimpleMemPipeline and its database   *)
(***************************************************************************)
VARIABLES
    config,      \* the configuration and the LLM functions given to the constructor
    timer,       \* consolidationTimer is set
    facts,       \* table atomic_facts, in rowid order
    windows,     \* table conversation_windows, in rowid order
    stats,       \* table compression_stats, in rowid order
    calls,       \* the processTranscript calls: position and local variables
    runs,        \* the runConsolidation calls: position and local variables
    searches,    \* the search calls made: the facts read and the value returned
    nextId,      \* the next value of randomUUID()
    now,         \* Date.now(), in days
    storeFaults, \* store writes that have failed
    llmFaults,   \* LLM calls that have failed
    applied      \* the last direct call of an exported function: arguments and value

vars == <<config, timer, facts, windows, stats, calls, runs, searches, nextId, now,
          storeFaults, llmFaults, applied>>

\* no exported function has been called directly
NotApplied == [op |-> "none"]

PipelineConfig(enabled, llmExtract, llmConsolidate, backgroundConsolidation, retrieval) ==
    [enabled |-> enabled,
     llmExtract |-> llmExtract,
     llmConsolidate |-> llmConsolidate,
     backgroundConsolidation |-> backgroundConsolidation,
     consolidation |-> DEFAULT_CONSOLIDATION_CONFIG,
     retrieval |-> retrieval]

\* token budgets small enough for the statements of the model to exhaust
RetrievalConfigs ==
    {RetrievalConfig(12, 60, 120, pc, ip, 4) : pc \in BOOLEAN, ip \in BOOLEAN}

DefaultRetrieval == RetrievalConfig(12, 60, 120, TRUE, FALSE, 4)

PipelineConfigs ==
    {PipelineConfig(TRUE, TRUE, TRUE, TRUE, DefaultRetrieval),
     PipelineConfig(TRUE, FALSE, TRUE, FALSE, RetrievalConfig(12, 60, 120, FALSE, TRUE, 4)),
     PipelineConfig(FALSE, TRUE, TRUE, TRUE, DefaultRetrieval),
     PipelineConfig(TRUE, FALSE, FALSE, TRUE, DefaultRetrieval)}

Queries ==
    {<<>>,
     <<"Where", "does", "Alice", "work">>,
     <<"recent", "Bob", "works">>,
     <<"Why", "did", "Bob", "left", "Globex">>}

\* the queries given to search
SearchQueries == {<<"Where", "does", "Alice", "work">>}

\* the day the pipeline is constructed
Today == 100

IdleCall ==
    [pc |-> "idle", sessionFile |-> NoStr, transcript |-> <<>>, windowsCreated |-> 0,
     windowsToProcess |-> <<>>, avgEntropy |-> <<>>, chunk |-> 0, pending |-> {},
     windowFacts |-> <<>>, failed |-> {}, allFacts |-> <<>>, uniqueFacts |-> <<>>,
     stored |-> <<>>, result |-> <<>>]

IdleRun ==
    [pc |-> "idle", origin |-> "none", atomicFacts |-> <<>>, allFacts |-> <<>>,
     currentLevel |-> 0, clusters |-> <<>>, consolidated |-> <<>>, stored |-> <<>>,
     factsAtStart |-> <<>>, failed |-> <<>>, result |-> <<>>]

(***************************************************************************)
(* The database                                                            *)
(***************************************************************************)
\* INSERT OR REPLACE: a row of the same id is deleted, the new row is added
PutRow(table, row) ==
    Append(SelectSeq(table, LAMBDA old : old.id # row.id), row)

RECURSIVE PutRows(_, _)
PutRows(table, rows) ==
    IF rows = <<>> THEN table ELSE PutRows(PutRow(table, rows[1]), Tail(rows))

\* storeWindow
WindowRow(window, sessionFile, at) ==
    [id |-> window.id,
     turns |-> window.turns,
     startIndex |-> window.startIndex,
     endIndex |-> window.endIndex,
     entropy |-> window.entropy,
     shouldProcess |-> window.shouldProcess,
     processedAt |-> at,
     sourceSessionFile |-> sessionFile]

\* getRecentFacts: ORDER BY extracted_at DESC LIMIT limit. Only the entities
\* and persons of the rows are read, so the rows are returned as a set would be.
getRecentFacts(limit) ==
    IF Len(facts) <= limit THEN facts
    ELSE LET byAge == ArraySort([i \in 1..Len(facts) |->
                                    [fact |-> facts[i],
                                     relevanceScore |-> <<facts[i].extractedAt, 1>>]],
                                "relevance")
         IN  [i \in 1..limit |-> byAge[i].fact]

getFactsByLevel(level) == SelectSeq(facts, LAMBDA f : f.level = level)

getAllFacts == facts

\* A write may fail (StoreError). ok rows of n are written before the failure.
WritesDone(n) == {ok \in 0..n : ok = n \/ storeFaults + llmFaults < MaxFaults}

\* compression_stats declares compression_ratio and entropy_score NOT NULL and
\* SQLite binds NaN as NULL: such a row is rejected.
StatRowRejected(stat) == stat.compressionRatio = NaN \/ stat.entropyScore = <<>>

(***************************************************************************)
(* processTranscript                                                       *)
(* Its only suspension points are the LLM calls of extractAtomicFactsBatch *)
(* (the database is synchronous): the call runs from its start to the      *)
(* first chunk's LLM calls, from one LLM answer to the next, and from the  *)
(* last answer to its return, each in one step.                            *)
(***************************************************************************)
\* the operations started so far, stopBackgroundConsolidation included
OpsStarted ==
    Cardinality({c \in 1..MaxCalls : calls[c].pc # "idle"})
    + Cardinality({r \in 1..MaxRuns : runs[r].pc # "idle"})
    + Len(searches)
    + (IF config.backgroundConsolidation /\ config.llmConsolidate /\ ~timer THEN 1 ELSE 0)

\* calls and runs are started in the order of their numbers
IsNext(slots, c) ==
    /\ OpsStarted < MaxOps
    /\ slots[c].pc = "idle"
    /\ \A d \in 1..(c - 1) : slots[d].pc # "idle"

\* the session file call c is made for
SessionFileOf(c) == IF c = 1 THEN "s1.jsonl" ELSE "s2.jsonl"

\* the loop of storeWindow: ok of the kept windows are written (all of them
\* unless a write fails); then extractAtomicFactsBatch makes the LLM calls of
\* its first chunk
StoreWindows(c, transcript, sessionFile, ws, toProcess, avgEntropy) ==
    \E ok \in WritesDone(Len(toProcess)) :
       /\ windows' = PutRows(windows,
                             [i \in 1..ok |-> WindowRow(toProcess[i], sessionFile, now)])
       /\ storeFaults' = IF ok < Len(toProcess) THEN storeFaults + 1 ELSE storeFaults
       /\ calls' = [calls EXCEPT ![c] =
             [IdleCall EXCEPT
                !.pc = IF ok < Len(toProcess) THEN "threw"
                       ELSE IF toProcess = <<>> THEN "store" ELSE "extract",
                !.sessionFile = sessionFile,
                !.transcript = transcript,
                !.windowsCreated = Len(ws),
                !.windowsToProcess = toProcess,
                !.avgEntropy = avgEntropy,
                !.chunk = IF ok = Len(toProcess) /\ ok > 0 THEN 1 ELSE 0,
                !.pending = IF ok = Len(toProcess)
                            THEN ChunkMembers(Len(toProcess), MaxParallelWorkers, 1)
                            ELSE {},
                !.windowFacts = [i \in 1..Len(toProcess) |-> <<>>]]]

FilterAndStore(c, transcript, sessionFile, ws, filterResults) ==
    StoreWindows(c, transcript, sessionFile, ws, WindowsToProcess(filterResults),
                 AvgEntropy(filterResults))

FilterWindows(c, transcript, sessionFile, ws) ==
    FilterAndStore(c, transcript, sessionFile, ws,
                   filterWindowsByEntropy(ws, getRecentFacts(RecentFactsLimit)))

ProcessTranscript(c, transcript, sessionFile) ==
    /\ IsNext(calls, c)
    /\ IF ~config.enabled \/ ~config.llmExtract
       THEN /\ calls' = [calls EXCEPT ![c] =
                           [IdleCall EXCEPT !.pc = "returned",
                                            !.sessionFile = sessionFile,
                                            !.transcript = transcript,
                                            !.result = <<[windowsCreated |-> 0,
                                                          windowsProcessed |-> 0,
                                                          factsExtracted |-> 0,
                                                          compressionStats |-> <<>>]>>]]
            /\ UNCHANGED <<windows, storeFaults>>
       ELSE FilterWindows(c, transcript, sessionFile,
                          createConversationWindows(transcript, WindowSize, Stride))
    /\ UNCHANGED <<applied, config, timer, facts, stats, runs, searches, nextId, now, llmFaults>>

\* the facts of the windows of chunk `members`, in the order of the windows
ChunkFacts(windowFacts, members) ==
    Concat([k \in 1..Len(windowFacts) |-> IF k \in members THEN windowFacts[k] ELSE <<>>])

\* the answer of window i parsed into `extracted`: the chunk goes on, or it
\* is complete and the next chunk's LLM calls are made, or the batch returns
WindowSettled(c, call, i, extracted, lastChunk) ==
    /\ nextId' = nextId + Len(extracted)
    /\ calls' = [calls EXCEPT ![c] =
          IF call.pending # {i}
          THEN [call EXCEPT !.pending = call.pending \ {i}, !.windowFacts[i] = extracted]
          ELSE [call EXCEPT
                  !.windowFacts[i] = extracted,
                  !.allFacts = call.allFacts
                                 \o ChunkFacts([call.windowFacts EXCEPT ![i] = extracted],
                                               ChunkMembers(Len(call.windowsToProcess),
                                                            MaxParallelWorkers, call.chunk)),
                  !.chunk = IF lastChunk THEN call.chunk ELSE call.chunk + 1,
                  !.pending = IF lastChunk THEN {}
                              ELSE ChunkMembers(Len(call.windowsToProcess),
                                                MaxParallelWorkers, call.chunk + 1),
                  !.pc = IF lastChunk THEN "store" ELSE "extract"]]

\* The Extractor LLM call of window i of call c settles with `response`.
\* A rejection or a response that does not parse rejects extractAtomicFacts,
\* hence Promise.all, extractAtomicFactsBatch and processTranscript; the
\* answers of the other windows of the chunk are then dropped.
\* A batch of no window returns without an LLM call.
LLMExtractSettles(c, i, response) ==
    /\ calls[c].pc = "extract"
    /\ i \in calls[c].pending
    /\ IF response.kind = "reject" \/ ParseThrows(response)
       THEN /\ storeFaults + llmFaults < MaxFaults
            /\ calls' = [calls EXCEPT ![c].pc = "threw",
                                      ![c].pending = calls[c].pending \ {i},
                                      ![c].failed = calls[c].failed \cup {i}]
            /\ llmFaults' = llmFaults + 1
            /\ UNCHANGED nextId
       ELSE /\ UNCHANGED llmFaults
            /\ WindowSettled(c, calls[c], i,
                             extractAtomicFacts(calls[c].windowsToProcess[i], response,
                                                now, nextId),
                             calls[c].chunk >= ChunkCount(Len(calls[c].windowsToProcess),
                                                          MaxParallelWorkers))
    /\ UNCHANGED <<applied, config, timer, facts, windows, stats, runs, searches, now, storeFaults>>

\* inputTokens / uniqueFacts.length with inputTokens = sum of content.length / 4
CompressionRatio(inputChars, outputFacts) ==
    IF outputFacts = 0 THEN (IF inputChars = 0 THEN NaN ELSE Infinity)
    ELSE Rat(inputChars, 4 * outputFacts)

InputChars(transcript) ==
    SumSeq([i \in 1..Len(transcript) |-> transcript[i].content.len])

\* the row storeCompressionStats writes
CompressionStatRow(id, inputChars, outputFacts, avgEntropy, at, sessionFile) ==
    [id |-> id,
     inputChars |-> inputChars,
     outputFacts |-> outputFacts,
     compressionRatio |-> CompressionRatio(inputChars, outputFacts),
     entropyScore |-> avgEntropy,
     createdAt |-> at,
     sourceSessionFile |-> sessionFile]

\* deduplicateAtomicFacts, then fact.sourceSessionFile = sessionFile
SessionFacts(unique, sessionFile) ==
    [i \in 1..Len(unique) |-> [unique[i] EXCEPT !.sourceSessionFile = sessionFile]]

\* storeFact awaited: the call is suspended after each row it writes
StoreFactsAwaited(c, call, uniqueFacts, compressionStat) ==
    IF Len(call.stored) < Len(uniqueFacts)
    THEN /\ facts' = PutRow(facts, uniqueFacts[Len(call.stored) + 1])
         /\ calls' = [calls EXCEPT ![c] =
               [call EXCEPT !.uniqueFacts = uniqueFacts,
                            !.stored = Append(call.stored,
                                              uniqueFacts[Len(call.stored) + 1])]]
         /\ UNCHANGED <<stats, nextId, storeFaults>>
    ELSE /\ ~StatRowRejected(compressionStat)
         /\ stats' = Append(stats, compressionStat)
         /\ nextId' = nextId + 1
         /\ calls' = [calls EXCEPT ![c] =
               [call EXCEPT !.pc = "returned", !.uniqueFacts = uniqueFacts]]
         /\ UNCHANGED <<facts, storeFaults>>

\* the loop of storeFact writes ok of the facts (all of them unless a write
\* fails); then the statistics row is written, unless it is rejected or its
\* write fails, and the call returns
StoreFacts(c, call, uniqueFacts, compressionStat) ==
    \E ok \in WritesDone(Len(uniqueFacts)), statWritten \in BOOLEAN :
       /\ ok < Len(uniqueFacts) => ~statWritten
       /\ StatRowRejected(compressionStat) => ~statWritten
       /\ (ok = Len(uniqueFacts) /\ ~StatRowRejected(compressionStat) /\ ~statWritten)
             => storeFaults + llmFaults < MaxFaults
       /\ facts' = PutRows(facts, SubSeq(uniqueFacts, 1, ok))
       /\ stats' = IF statWritten THEN Append(stats, compressionStat) ELSE stats
       /\ nextId' = IF statWritten THEN nextId + 1 ELSE nextId
       /\ storeFaults' = IF ~statWritten /\ ~(ok = Len(uniqueFacts)
                                               /\ StatRowRejected(compressionStat))
                         THEN storeFaults + 1 ELSE storeFaults
       /\ calls' = [calls EXCEPT ![c] =
             [call EXCEPT
                !.pc = IF statWritten THEN "returned" ELSE "threw",
                !.uniqueFacts = uniqueFacts,
                !.stored = SubSeq(uniqueFacts, 1, ok),
                !.result = IF statWritten
                           THEN <<[windowsCreated |-> call.windowsCreated,
                                   windowsProcessed |-> Len(call.windowsToProcess),
                                   factsExtracted |-> Len(uniqueFacts),
                                   compressionStats |-> <<compressionStat>>]>>
                           ELSE <<>>]]

DedupeAndStore(c, call, uniqueFacts) ==
    StoreFacts(c, call, uniqueFacts,
               CompressionStatRow(nextId, InputChars(call.transcript), Len(uniqueFacts),
                                  call.avgEntropy, now, call.sessionFile))

\* After extractAtomicFactsBatch returned: deduplicate, store the facts one
\* by one, then compute and store the compression statistics, and return.
ProcessTranscriptStore(c) ==
    /\ calls[c].pc = "store"
    /\ DedupeAndStore(c, calls[c],
                      SessionFacts(deduplicateAtomicFacts(calls[c].allFacts),
                                   calls[c].sessionFile))
    /\ UNCHANGED <<applied, config, timer, windows, runs, searches, now, llmFaults>>

(***************************************************************************)
(* runConsolidation and recursiveConsolidation                             *)
(* The suspension points are the LLM calls of consolidateCluster, one      *)
(* cluster after the other.                                                *)
(***************************************************************************)
\* the head of the loop of recursiveConsolidation at level currentLevel: the
\* clusters to consolidate, none when the loop ends
\* a loop without the test currentLevel < maxConsolidationLevel
LevelClustersUncapped(allFacts, currentLevel, cfg, firstId, at) ==
    clusterAtomicFacts(SelectSeq(allFacts, LAMBDA f : f.level = currentLevel),
                       cfg, firstId, at)

LevelClusters(allFacts, currentLevel, cfg, firstId, at) ==
    IF currentLevel >= cfg.maxConsolidationLevel THEN <<>>
    ELSE clusterAtomicFacts(SelectSeq(allFacts, LAMBDA f : f.level = currentLevel),
                            cfg, firstId, at)

NothingConsolidated ==
    [factsConsolidated |-> 0, newFactsCreated |-> 0, compressionAchieved |-> <<1, 1>>]

\* recursiveConsolidation is entered with the level-0 facts read and makes the
\* LLM call of the first cluster, if there is one
StartConsolidation(r, origin, atomicFacts, clusters) ==
    /\ runs' = [runs EXCEPT ![r] =
          [IdleRun EXCEPT
             !.pc = IF clusters = <<>> THEN "store" ELSE "consolidate",
             !.origin = origin,
             !.factsAtStart = [i \in 1..Len(facts) |-> facts[i].id],
             !.atomicFacts = atomicFacts,
             !.allFacts = atomicFacts,
             !.clusters = clusters]]
    /\ nextId' = nextId + Len(clusters)

ReadAtomicFacts(r, origin, atomicFacts) ==
    IF Len(atomicFacts) < config.consolidation.minFactsForCluster
    THEN /\ runs' = [runs EXCEPT ![r] =
                       [IdleRun EXCEPT !.pc = "returned",
                                       !.origin = origin,
                                       !.factsAtStart = [i \in 1..Len(facts) |-> facts[i].id],
                                       !.atomicFacts = atomicFacts,
                                       !.result = <<NothingConsolidated>>]]
         /\ UNCHANGED nextId
    ELSE StartConsolidation(r, origin, atomicFacts,
                            LevelClusters(atomicFacts, 0, config.consolidation, nextId, now))

\* an interval callback that still fires after clearInterval
RunConsolidationAfterClear(r, origin) ==
    /\ IsNext(runs, r)
    /\ IF ~config.enabled \/ ~config.llmConsolidate
       THEN /\ runs' = [runs EXCEPT ![r] =
                          [IdleRun EXCEPT !.pc = "returned",
                                          !.origin = origin,
                                          !.result = <<NothingConsolidated>>]]
            /\ UNCHANGED nextId
       ELSE ReadAtomicFacts(r, origin, getFactsByLevel(0))
    /\ UNCHANGED <<applied, config, timer, facts, windows, stats, calls, searches, now,
                   storeFaults, llmFaults>>

\* runConsolidation, called by the program (origin "caller") or by the
\* interval timer (origin "timer", which logs and drops a rejection)
RunConsolidation(r, origin) ==
    /\ IsNext(runs, r)
    /\ origin = "timer" => timer
    /\ IF ~config.enabled \/ ~config.llmConsolidate
       THEN /\ runs' = [runs EXCEPT ![r] =
                          [IdleRun EXCEPT !.pc = "returned",
                                          !.origin = origin,
                                          !.result = <<NothingConsolidated>>]]
            /\ UNCHANGED nextId
       ELSE ReadAtomicFacts(r, origin, getFactsByLevel(0))
    /\ UNCHANGED <<applied, config, timer, facts, windows, stats, calls, searches, now,
                   storeFaults, llmFaults>>

\* the last cluster of a level is consolidated: the next level's clusters
NextLevel(r, run, allFacts, consolidated, nextClusters) ==
    /\ runs' = [runs EXCEPT ![r] =
          [run EXCEPT !.allFacts = allFacts,
                      !.consolidated = consolidated,
                      !.currentLevel = run.currentLevel + 1,
                      !.clusters = nextClusters,
                      !.pc = IF nextClusters = <<>> THEN "store" ELSE "consolidate"]]
    /\ nextId' = nextId + 1 + Len(nextClusters)

ClusterConsolidated(r, run, allFacts, consolidated) ==
    IF Len(run.clusters) > 1
    THEN /\ runs' = [runs EXCEPT ![r] =
                       [run EXCEPT !.allFacts = allFacts,
                                   !.clusters = Tail(run.clusters),
                                   !.consolidated = consolidated]]
         /\ nextId' = nextId + 1
    ELSE NextLevel(r, run, allFacts, consolidated,
                   LevelClusters(allFacts, run.currentLevel + 1, config.consolidation,
                                 nextId + 1, now))

\* the consolidated fact takes the id of the first fact of its cluster
ConsolidatedInPlace(r, run, cluster, fact) ==
    ClusterConsolidated(r, run,
                        Append(run.allFacts, [fact EXCEPT !.id = cluster.facts[1].id]),
                        Append(run.consolidated,
                               [fact |-> cluster.facts[1].id,
                                sources |-> {cluster.facts[i].id : i \in 1..Len(cluster.facts)}]))

\* a push of the consolidated fact without its link to the cluster
ConsolidatedUnlinked(r, run, cluster, fact) ==
    ClusterConsolidated(r, run, Append(run.allFacts, [fact EXCEPT !.parentId = NoId]),
                        Append(run.consolidated,
                               [fact |-> fact.id,
                                sources |-> {cluster.facts[i].id : i \in 1..Len(cluster.facts)}]))

\* a push of the consolidated fact at the level of its sources
ConsolidatedSameLevel(r, run, cluster, fact) ==
    ClusterConsolidated(r, run, Append(run.allFacts, [fact EXCEPT !.level = fact.level - 1]),
                        Append(run.consolidated,
                               [fact |-> fact.id,
                                sources |-> {cluster.facts[i].id : i \in 1..Len(cluster.facts)}]))

\* allFacts.push(result.consolidatedFact), then the loop goes on
ConsolidatedFact(r, run, cluster, fact) ==
    ClusterConsolidated(r, run, Append(run.allFacts, fact),
                        Append(run.consolidated,
                               [fact |-> fact.id,
                                sources |-> {cluster.facts[i].id : i \in 1..Len(cluster.facts)}]))

\* The Consolidation LLM call of the first waiting cluster of run r settles.
\* A rejection rejects consolidateCluster, recursiveConsolidation and
\* runConsolidation.
LLMConsolidateSettles(r, response) ==
    /\ runs[r].pc = "consolidate"
    /\ IF response = "reject"
       THEN /\ storeFaults + llmFaults < MaxFaults
            /\ llmFaults' = llmFaults + 1
            /\ runs' = [runs EXCEPT ![r].pc = "threw",
                                    ![r].failed = <<runs[r].clusters[1].id>>]
            /\ UNCHANGED nextId
       ELSE /\ UNCHANGED llmFaults
            /\ ConsolidatedFact(r, runs[r], runs[r].clusters[1],
                                consolidateCluster(runs[r].clusters[1], response, nextId, now))
    /\ UNCHANGED <<applied, config, timer, facts, windows, stats, calls, searches, now, storeFaults>>

StatementChars(fs) == SumSeq([i \in 1..Len(fs) |-> Len(fs[i].statement)])

\* originalTokens / consolidatedTokens
CompressionAchieved(atomicFacts, newFacts) ==
    IF StatementChars(newFacts) = 0
    THEN (IF StatementChars(atomicFacts) = 0 THEN NaN ELSE Infinity)
    ELSE Rat(StatementChars(atomicFacts), StatementChars(newFacts))

\* the loop of storeFact over the new facts, then the statistics returned
StoreNewFacts(r, run, newFacts) ==
    \E ok \in WritesDone(Len(newFacts)) :
       /\ facts' = PutRows(facts, SubSeq(newFacts, 1, ok))
       /\ storeFaults' = IF ok < Len(newFacts) THEN storeFaults + 1 ELSE storeFaults
       /\ runs' = [runs EXCEPT ![r] =
             [run EXCEPT
                !.pc = IF ok < Len(newFacts) THEN "threw" ELSE "returned",
                !.stored = SubSeq(newFacts, 1, ok),
                !.result = IF ok < Len(newFacts) THEN <<>>
                           ELSE <<[factsConsolidated |-> Len(run.atomicFacts),
                                   newFactsCreated |-> Len(newFacts),
                                   compressionAchieved |->
                                       CompressionAchieved(run.atomicFacts, newFacts)]>>]]

\* a store error that would clear the interval timer
RunConsolidationStoreEndsTimer(r) ==
    /\ runs[r].pc = "store"
    /\ StoreNewFacts(r, runs[r],
                     SubSeq(runs[r].allFacts, Len(runs[r].atomicFacts) + 1,
                            Len(runs[r].allFacts)))
    /\ timer' = (timer /\ runs'[r].pc # "threw")
    /\ UNCHANGED <<applied, config, windows, stats, calls, searches, nextId, now, llmFaults>>

\* every fact recursiveConsolidation returned is stored, the atomic ones again
RunConsolidationStoreAll(r) ==
    /\ runs[r].pc = "store"
    /\ StoreNewFacts(r, runs[r], runs[r].allFacts)
    /\ UNCHANGED <<applied, config, timer, windows, stats, calls, searches, nextId, now, llmFaults>>

\* After recursiveConsolidation returned: the facts it added are stored one
\* by one and the statistics are returned.
RunConsolidationStore(r) ==
    /\ runs[r].pc = "store"
    /\ StoreNewFacts(r, runs[r],
                     SubSeq(runs[r].allFacts, Len(runs[r].atomicFacts) + 1,
                            Len(runs[r].allFacts)))
    /\ UNCHANGED <<applied, config, timer, windows, stats, calls, searches, nextId, now, llmFaults>>

(***************************************************************************)
(* search, stopBackgroundConsolidation                                     *)
(***************************************************************************)
\* the processTranscript calls that are suspended at an LLM call or about to
\* resume after one
CallsInProgress == {c \in 1..MaxCalls : calls[c].pc \in {"extract", "store"}}

\* search has no suspension point: it reads all facts and returns. The
\* record kept of it holds the ids of the rows it read and the calls that
\* were in progress.
Search(query) ==
    /\ Len(searches) < MaxSearches
    /\ OpsStarted < MaxOps
    /\ searches' = Append(searches,
          IF ~config.enabled
          THEN [seen |-> <<>>, inProgress |-> CallsInProgress, result |-> <<>>]
          ELSE [seen |-> [i \in 1..Len(facts) |-> facts[i].id],
                inProgress |-> CallsInProgress,
                result |-> <<adaptiveRetrieve(query, getAllFacts, config.retrieval, now)>>])
    /\ UNCHANGED <<applied, config, timer, facts, windows, stats, calls, runs, nextId, now,
                   storeFaults, llmFaults>>

StopBackgroundConsolidation ==
    /\ timer => OpsStarted < MaxOps
    /\ timer' = FALSE
    /\ UNCHANGED <<applied, config, facts, windows, stats, calls, runs, searches, nextId, now,
                   storeFaults, llmFaults>>

(***************************************************************************)
(* The database the pipeline is constructed over: empty, or as an earlier  *)
(* pipeline left it the day before, after                                  *)
(* processTranscript(EarlierTranscript, EarlierSessionFile) returned, the  *)
(* Extractor having answered RespAlice for every window.                   *)
(***************************************************************************)
EarlierTranscript == <<TurnAlice, TurnAlice>>

EarlierSessionFile == "s2.jsonl"

RECURSIVE EarlierExtract(_, _, _)
EarlierExtracted(ws, i, firstId, extracted) ==
    extracted \o EarlierExtract(ws, i + 1, firstId + Len(extracted))

EarlierExtract(ws, i, firstId) ==
    IF i > Len(ws) THEN <<>>
    ELSE EarlierExtracted(ws, i, firstId,
                          extractAtomicFacts(ws[i], RespAlice, Today - 1, firstId))

EarlierStored(toProcess, avgEntropy, allFacts, uniqueFacts) ==
    [facts |-> uniqueFacts,
     windows |-> [i \in 1..Len(toProcess) |->
                     WindowRow(toProcess[i], EarlierSessionFile, Today - 1)],
     stats |-> <<CompressionStatRow(Len(allFacts) + 1, InputChars(EarlierTranscript),
                                    Len(uniqueFacts), avgEntropy, Today - 1,
                                    EarlierSessionFile)>>,
     nextId |-> Len(allFacts) + 2]

EarlierBatch(toProcess, avgEntropy, allFacts) ==
    EarlierStored(toProcess, avgEntropy, allFacts,
                  SessionFacts(deduplicateAtomicFacts(allFacts), EarlierSessionFile))

EarlierWindows(toProcess, avgEntropy) ==
    EarlierBatch(toProcess, avgEntropy, EarlierExtract(toProcess, 1, 1))

EarlierFiltered(filterResults) ==
    EarlierWindows(WindowsToProcess(filterResults), AvgEntropy(filterResults))

EarlierStore ==
    EarlierFiltered(filterWindowsByEntropy(
                        createConversationWindows(EarlierTranscript, WindowSize, Stride),
                        <<>>))

\* the constructor: the timer is started when backgroundConsolidation is on
\* and a consolidation function is given
Init ==
    /\ config \in PipelineConfigs
    /\ timer = (config.backgroundConsolidation /\ config.llmConsolidate)
    /\ \E store \in {[facts |-> <<>>, windows |-> <<>>, stats |-> <<>>, nextId |-> 1],
                    EarlierStore} :
         /\ facts = store.facts
         /\ windows = store.windows
         /\ stats = store.stats
         /\ nextId = store.nextId
    /\ calls = [c \in 1..MaxCalls |-> IdleCall]
    /\ runs = [r \in 1..MaxRuns |-> IdleRun]
    /\ searches = <<>>
    /\ now = Today
    /\ storeFaults = 0
    /\ llmFaults = 0
    /\ applied = NotApplied

Next ==
    \/ \E c \in 1..MaxCalls, t \in Transcripts : ProcessTranscript(c, t, SessionFileOf(c))
    \/ \E c \in 1..MaxCalls : \E i \in calls[c].pending, resp \in ExtractorResponses :
          LLMExtractSettles(c, i, resp)
    \/ \E c \in 1..MaxCalls : ProcessTranscriptStore(c)
    \/ \E r \in 1..MaxRuns, origin \in {"caller", "timer"} : RunConsolidation(r, origin)
    \/ \E r \in 1..MaxRuns, resp \in ConsolidatorResponses : LLMConsolidateSettles(r, resp)
    \/ \E r \in 1..MaxRuns : RunConsolidationStore(r)
    \/ \E q \in SearchQueries : Search(q)
    \/ StopBackgroundConsolidation

Spec == Init /\ [][Next]_vars

(***************************************************************************)
(* adaptiveRetrieve as a function of its arguments: the specification      *)
(* SpecRetrieve draws the facts and the retrieval configuration from        *)
(* bounded sets and applies search to every query of Queries.              *)
(***************************************************************************)
\* a consolidated fact of level 1 that names `parentId` as its parent
ChildFact(id, fd, parentId) ==
    [id |-> id,
     statement |-> fd.statement,
     keywords |-> fd.keywords,
     persons |-> fd.persons,
     entities |-> fd.entities,
     topic |-> fd.topic,
     timestamp |-> fd.timestamp,
     location |-> fd.location,
     sourceWindowId |-> NoWindowId,
     sourceSessionFile |-> NoStr,
     confidence |-> Pct(fd.confidence),
     extractedAt |-> Today,
     level |-> 1,
     parentId |-> parentId]

\* n facts that name the fact n + 1 as their parent, followed or not by
\* that fact, of level 2
FactList(n, fd, withParent) ==
    [i \in 1..n |-> ChildFact(i, fd, n + 1)]
      \o (IF withParent
          THEN <<[ChildFact(n + 1, fd, n + 2) EXCEPT
                    !.statement = "Summary of the related facts", !.level = 2]>>
          ELSE <<>>)

FactLists ==
    {FactList(n, fd, withParent) :
       n \in 0..MaxRetrievalFacts, fd \in {FdAliceWorks, FdBobLeft}, withParent \in BOOLEAN}

InitRetrieve ==
    /\ config \in {PipelineConfig(TRUE, FALSE, FALSE, FALSE, rc) : rc \in RetrievalConfigs}
    /\ timer = FALSE
    /\ facts \in FactLists
    /\ windows = <<>>
    /\ stats = <<>>
    /\ nextId = MaxRetrievalFacts + 3
    /\ calls = [c \in 1..MaxCalls |-> IdleCall]
    /\ runs = [r \in 1..MaxRuns |-> IdleRun]
    /\ searches = <<>>
    /\ now = Today
    /\ storeFaults = 0
    /\ llmFaults = 0
    /\ applied = NotApplied

NextRetrieve == \E q \in Queries : Search(q)

SpecRetrieve == InitRetrieve /\ [][NextRetrieve]_vars

(***************************************************************************)
(* The exported functions called directly: the specification SpecFunctions *)
(* draws the arguments of a call from bounded sets and keeps the call and *)
(* the value it returned in `applied`; a behaviour makes one call, whose   *)
(* value does not depend on the calls made before.                         *)
(***************************************************************************)
MaxWindowTurns == 5

MaxWindowSize == 3

\* createConversationWindows(turns, windowSize, stride)
ApplyCreateWindows ==
    /\ applied = NotApplied
    /\ \E turns \in SeqsUpTo({TurnAlice, TurnBob}, MaxWindowTurns) :
      \E windowSize \in 1..MaxWindowSize, stride \in 1..MaxWindowSize :
        /\ applied' = [op |-> "createConversationWindows",
                       turns |-> turns,
                       windowSize |-> windowSize,
                       stride |-> stride,
                       result |-> createConversationWindows(turns, windowSize, stride)]
        /\ UNCHANGED <<config, timer, facts, windows, stats, calls, runs, searches,
                       nextId, now, storeFaults, llmFaults>>

\* the facts of level `level` made of a list of fact data, with ids 1, 2, ...
FactsOfLevel(fds, level) ==
    [i \in 1..Len(fds) |-> [ChildFact(i, fds[i], NoId) EXCEPT !.level = level]]

\* consolidateCluster(cluster, llmConsolidate) on a cluster of up to
\* maxFactsPerCluster facts, all of one level
ApplyConsolidateCluster ==
    /\ applied = NotApplied
    /\ \E fds \in SeqsUpTo({FdAliceWorks, FdAliceLeads, FdBobLeft, FdUnsure, FdMerger},
                        MaxFactsPerCluster) \ {<<>>} :
      \E level \in 0..1 :
        /\ applied' = [op |-> "consolidateCluster",
                       cluster |-> createCluster(FactsOfLevel(fds, level), Len(fds) + 1, now),
                       result |-> consolidateCluster(
                                    createCluster(FactsOfLevel(fds, level), Len(fds) + 1, now),
                                    "Summary of the related facts", Len(fds) + 2, now)]
        /\ UNCHANGED <<config, timer, facts, windows, stats, calls, runs, searches,
                       nextId, now, storeFaults, llmFaults>>

\* calculateFactSimilarity(fact1, fact2, config)
ApplySimilarity ==
    /\ applied = NotApplied
    /\ \E fd1 \in {FdAliceWorks, FdAliceLeads, FdBobLeft, FdUnsure, FdMerger} :
      \E fd2 \in {FdAliceWorks, FdAliceLeads, FdBobLeft, FdUnsure, FdMerger} :
        \E entityClustering \in BOOLEAN, topicClustering \in BOOLEAN,
           temporalClustering \in BOOLEAN :
          /\ applied' = [op |-> "calculateFactSimilarity",
                         fact1 |-> ChildFact(1, fd1, NoId),
                         fact2 |-> ChildFact(1, fd2, NoId),
                         config |-> ConsolidationConfig(entityClustering, topicClustering,
                                                        temporalClustering),
                         result |-> calculateFactSimilarity(
                                      ChildFact(1, fd1, NoId), ChildFact(1, fd2, NoId),
                                      ConsolidationConfig(entityClustering, topicClustering,
                                                          temporalClustering))]
          /\ UNCHANGED <<config, timer, facts, windows, stats, calls, runs, searches,
                         nextId, now, storeFaults, llmFaults>>

MaxDedupFacts == 3

\* deduplicateAtomicFacts(facts), and the function applied to its own output
ApplyDeduplicate ==
    /\ applied = NotApplied
    /\ \E fds \in SeqsUpTo({FdAliceWorks, FdAliceWorksAgain, FdAliceLeads, FdBobLeft,
                         FdMerger, FdMergerOneName}, MaxDedupFacts) :
      /\ applied' = [op |-> "deduplicateAtomicFacts",
                     facts |-> FactsOfLevel(fds, 0),
                     result |-> deduplicateAtomicFacts(FactsOfLevel(fds, 0)),
                     again |-> deduplicateAtomicFacts(
                                 deduplicateAtomicFacts(FactsOfLevel(fds, 0)))]
      /\ UNCHANGED <<config, timer, facts, windows, stats, calls, runs, searches,
                     nextId, now, storeFaults, llmFaults>>

MaxResponseFacts == 5

\* a fact whose confidence is exactly minConfidence
FdAtThreshold == [FdAliceLeads EXCEPT !.confidence = MinConfidencePct]

\* extractAtomicFacts(window, llmExtract, config) where the LLM answers a facts
\* array of up to MaxResponseFacts valid facts
ApplyExtract ==
    /\ applied = NotApplied
    /\ \E fds \in SeqsUpTo({FdAliceWorks, FdUnsure, FdAliceWorksAgain, FdAtThreshold},
                        MaxResponseFacts) :
      /\ applied' = [op |-> "extractAtomicFacts",
                     response |-> RespFacts(fds),
                     result |-> extractAtomicFacts(
                                  createConversationWindows(<<TurnAlice>>, WindowSize, Stride)[1],
                                  RespFacts(fds), now, nextId)]
      /\ UNCHANGED <<config, timer, facts, windows, stats, calls, runs, searches,
                     nextId, now, storeFaults, llmFaults>>

(***************************************************************************)
(* entity-extractor: extractEntitiesFromText on the parsed answer of the   *)
(* LLM.  randomUUID gives the entities the ids 1, 2, ... in their order    *)
(* and the relationships the ids after them.                               *)
(***************************************************************************)
\* name.trim().toLowerCase() on the names the model uses
normalizeEntityName(name) ==
    CASE name = " alice " -> "alice"
      [] name = " Alice" -> "alice"
      [] OTHER -> ToLowerCase(name)

isValidEntityType(type) ==
    type \in {"Person", "Organization", "Place", "Event", "Thing", "Product", "CreativeWork",
              "Action", "Intangible", "Date", "Time"}

isValidRelationType(type) ==
    type \in {"knows", "worksFor", "attendee", "location", "about", "mentions", "creator",
              "participant", "associatedWith", "relatedTo", "temporal", "owns", "memberOf"}

\* the loop over parsed.entities: one entity per raw entity, an unknown type
\* becomes "Thing"
ExtractedEntities(rawEntities) ==
    [i \in 1..Len(rawEntities) |->
       [id |-> i,
        type |-> IF isValidEntityType(rawEntities[i].type) THEN rawEntities[i].type
                 ELSE "Thing",
        name |-> rawEntities[i].name,
        confidence |-> Pct(DefaultConfidencePct)]]

\* entityMap.get(key) after the loop has set every entity under its
\* normalized name: the last entity of that name, <<>> when there is none
EntityMapGet(entities, key) ==
    LET named == {i \in 1..Len(entities) : normalizeEntityName(entities[i].name) = key}
    IN  IF named = {} THEN <<>> ELSE <<entities[SetMax(named)]>>

\* entities.splice(maxEntities) when entities.length > maxEntities
SpliceEntities(entities, maxEntities) ==
    IF Len(entities) > maxEntities THEN SubSeq(entities, 1, maxEntities) ELSE entities

\* the loop over parsed.relationships: relationships of an invalid type or
\* with an end that entityMap does not hold are skipped
RECURSIVE ExtractedRelationships(_, _, _)
ExtractedRelationships(rawRelationships, entities, firstId) ==
    IF rawRelationships = <<>> THEN <<>>
    ELSE LET rawRel == rawRelationships[1]
             sourceEntity == EntityMapGet(entities, normalizeEntityName(rawRel.source))
             targetEntity == EntityMapGet(entities, normalizeEntityName(rawRel.target))
         IN  IF ~isValidRelationType(rawRel.type) \/ sourceEntity = <<>> \/ targetEntity = <<>>
             THEN ExtractedRelationships(Tail(rawRelationships), entities, firstId)
             ELSE <<[id |-> firstId,
                     type |-> rawRel.type,
                     sourceEntityId |-> sourceEntity[1].id,
                     targetEntityId |-> targetEntity[1].id,
                     confidence |-> Pct(DefaultConfidencePct)]>>
                    \o ExtractedRelationships(Tail(rawRelationships), entities, firstId + 1)

extractEntitiesFromText(parsed, maxEntitiesPerChunk) ==
    [entities |-> SpliceEntities(ExtractedEntities(parsed.entities), maxEntitiesPerChunk),
     relationships |-> ExtractedRelationships(parsed.relationships,
                                              ExtractedEntities(parsed.entities),
                                              Len(parsed.entities) + 1)]

MaxRawEntities == 3

MaxRawRelationships == 2

\* what the LLM may name: Alice under three spellings, Acme, a thing of an
\* unknown type; Alice works for Acme, knows somebody unnamed, and a
\* relationship of an unknown type
RawEntities ==
    {[type |-> "Person", name |-> "Alice"], [type |-> "Person", name |-> " alice "],
     [type |-> "Organization", name |-> "Acme"], [type |-> "Gadget", name |-> "Globex"]}

RawRelationships ==
    {[type |-> "worksFor", source |-> " Alice", target |-> "Acme"],
     [type |-> "knows", source |-> "Alice", target |-> "Bob"],
     [type |-> "likes", source |-> "Alice", target |-> "Acme"]}

\* extractEntitiesFromText(text, {config, llmExtract}) where the LLM answers
\* JSON with up to MaxRawEntities entities and MaxRawRelationships relationships
ApplyExtractEntities ==
    /\ applied = NotApplied
    /\ \E rawEntities \in SeqsUpTo(RawEntities, MaxRawEntities) :
         \E rawRelationships \in SeqsUpTo(RawRelationships, MaxRawRelationships) :
           \E maxEntitiesPerChunk \in 1..MaxRawEntities :
             /\ applied' = [op |-> "extractEntitiesFromText",
                            parsed |-> [entities |-> rawEntities,
                                        relationships |-> rawRelationships],
                            maxEntitiesPerChunk |-> maxEntitiesPerChunk,
                            result |-> extractEntitiesFromText(
                                         [entities |-> rawEntities,
                                          relationships |-> rawRelationships],
                                         maxEntitiesPerChunk)]
             /\ UNCHANGED <<config, timer, facts, windows, stats, calls, runs, searches,
                            nextId, now, storeFaults, llmFaults>>

\* undated facts on one topic: Bob and Alice at Acme, Alice twice at Globex
FdBobWorks ==
    FactData("Bob works at Acme", <<"works">>, <<"Bob">>, <<"Acme">>, "employment", NoTs, 90)

FdAliceJoined ==
    FactData("Alice joined Acme", <<"joined">>, <<"Alice">>, <<"Acme">>, "employment", NoTs, 90)

FdAliceAdvises ==
    FactData("Alice advises Globex", <<"advises">>, <<"Alice">>, <<"Globex">>, "employment",
             NoTs, 90)

FdAliceAudits ==
    FactData("Alice audits Globex", <<"audits">>, <<"Alice">>, <<"Globex">>, "employment",
             NoTs, 90)

MaxGroupFacts == 4

\* clusterAtomicFacts(facts, config) for up to MaxGroupFacts of these facts and
\* clusters of two or three to MaxGroupFacts facts
ApplyClusterGroup ==
    /\ applied = NotApplied
    /\ \E fds \in SeqsUpTo({FdBobWorks, FdAliceJoined, FdAliceAdvises, FdAliceAudits},
                            MaxGroupFacts) :
         \E minFacts \in MinFactsForCluster..(MinFactsForCluster + 1) :
           /\ applied' = [op |-> "clusterAtomicFacts",
                          facts |-> FactsOfLevel(fds, 0),
                          config |-> [DEFAULT_CONSOLIDATION_CONFIG EXCEPT
                                        !.minFactsForCluster = minFacts,
                                        !.maxFactsPerCluster = MaxGroupFacts],
                          considered |-> ArraySort(FactsOfLevel(fds, 0), "timestamp"),
                          result |-> clusterAtomicFacts(
                                       FactsOfLevel(fds, 0),
                                       [DEFAULT_CONSOLIDATION_CONFIG EXCEPT
                                          !.minFactsForCluster = minFacts,
                                          !.maxFactsPerCluster = MaxGroupFacts],
                                       Len(fds) + 1, now)]
           /\ UNCHANGED <<config, timer, facts, windows, stats, calls, runs, searches,
                          nextId, now, storeFaults, llmFaults>>

\* Alice says one character, Bob sends an empty turn
TurnAliceBrief == [speaker |-> "Alice", content |-> [len |-> 1, caps |-> <<>>]]

TurnBobSilent == [speaker |-> "Bob", content |-> [len |-> 0, caps |-> <<>>]]

\* calculateWindowEntropy(window, previousFacts, config) for the window of one
\* or two turns, with and without a previous fact that names Alice and Acme
ApplyWindowEntropy ==
    /\ applied = NotApplied
    /\ \E turns \in SeqsUpTo({TurnAlice, TurnBob, TurnAliceBrief, TurnBobSilent},
                              WindowSize) :
         \E previousFacts \in {<<>>, FactsOfLevel(<<FdAliceWorks>>, 0)} :
           /\ turns # <<>>
           /\ applied' = [op |-> "calculateWindowEntropy",
                          window |-> createConversationWindows(
                                       turns, Len(turns), Len(turns))[1],
                          previousFacts |-> previousFacts,
                          result |-> calculateWindowEntropy(
                                       createConversationWindows(
                                         turns, Len(turns), Len(turns))[1],
                                       previousFacts)]
           /\ UNCHANGED <<config, timer, facts, windows, stats, calls, runs, searches,
                          nextId, now, storeFaults, llmFaults>>

\* clusterAtomicFacts(facts, config) for up to maxFactsPerCluster facts and
\* every cluster size limit up to the default ones; `considered` is the
\* order sortedFacts in which the two loops take the facts
ApplyCluster ==
    /\ applied = NotApplied
    /\ \E fds \in SeqsUpTo({FdAliceWorks, FdAliceLeads, FdBobFlew, FdBobLeft},
                            MaxFactsPerCluster) :
         \E minFacts \in 1..MinFactsForCluster, maxFacts \in 0..MaxFactsPerCluster :
           /\ applied' = [op |-> "clusterAtomicFacts",
                          facts |-> FactsOfLevel(fds, 0),
                          config |-> [DEFAULT_CONSOLIDATION_CONFIG EXCEPT
                                        !.minFactsForCluster = minFacts,
                                        !.maxFactsPerCluster = maxFacts],
                          considered |-> ArraySort(FactsOfLevel(fds, 0), "timestamp"),
                          result |-> clusterAtomicFacts(
                                       FactsOfLevel(fds, 0),
                                       [DEFAULT_CONSOLIDATION_CONFIG EXCEPT
                                          !.minFactsForCluster = minFacts,
                                          !.maxFactsPerCluster = maxFacts],
                                       Len(fds) + 1, now)]
           /\ UNCHANGED <<config, timer, facts, windows, stats, calls, runs, searches,
                          nextId, now, storeFaults, llmFaults>>

MaxQueryWords == 16

\* analyzeQuery(query) and determineRetrievalStrategy(analysis, config) for the
\* queries made of a few words that matter, padded with the word "works"
ApplyAnalyzeQuery ==
    /\ applied = NotApplied
    /\ \E head \in SeqsUpTo({"Alice", "recent", "Why", "about"}, 2)
                     \cup {<<"Alice", "met", "Bob", "at", "Acme">>} :
         \E n \in 0..(MaxQueryWords - Len(head)), rc \in RetrievalConfigs :
           /\ applied' = [op |-> "analyzeQuery",
                          query |-> head \o [i \in 1..n |-> "works"],
                          config |-> rc,
                          analysis |-> analyzeQuery(head \o [i \in 1..n |-> "works"]),
                          strategy |-> determineRetrievalStrategy(
                                         analyzeQuery(head \o [i \in 1..n |-> "works"]), rc)]
           /\ UNCHANGED <<config, timer, facts, windows, stats, calls, runs, searches,
                          nextId, now, storeFaults, llmFaults>>

InitFunctions ==
    /\ config = PipelineConfig(TRUE, TRUE, TRUE, FALSE, DefaultRetrieval)
    /\ timer = FALSE
    /\ facts = <<>>
    /\ windows = <<>>
    /\ stats = <<>>
    /\ nextId = 1
    /\ calls = [c \in 1..MaxCalls |-> IdleCall]
    /\ runs = [r \in 1..MaxRuns |-> IdleRun]
    /\ searches = <<>>
    /\ now = Today
    /\ storeFaults = 0
    /\ llmFaults = 0
    /\ applied = NotApplied

NextFunctions ==
    \/ ApplyCreateWindows
    \/ ApplyConsolidateCluster
    \/ ApplySimilarity
    \/ ApplyDeduplicate
    \/ ApplyExtract
    \/ ApplyAnalyzeQuery
    \/ ApplyCluster
    \/ ApplyWindowEntropy
    \/ ApplyClusterGroup
    \/ ApplyExtractEntities

SpecFunctions == InitFunctions /\ [][NextFunctions]_vars

(***************************************************************************)
(* extractAtomicFactsBatch over more windows than maxParallelWorkers: the  *)
(* specification SpecBatch gives processTranscript transcripts of          *)
(* MaxBatchTurns turns to an enabled pipeline with an empty store.         *)
(***************************************************************************)
MaxBatchTurns == 3

InitBatch ==
    /\ config = PipelineConfig(TRUE, TRUE, TRUE, FALSE, DefaultRetrieval)
    /\ timer = FALSE
    /\ facts = <<>>
    /\ windows = <<>>
    /\ stats = <<>>
    /\ nextId = 1
    /\ calls = [c \in 1..MaxCalls |-> IdleCall]
    /\ runs = [r \in 1..MaxRuns |-> IdleRun]
    /\ searches = <<>>
    /\ now = Today
    /\ storeFaults = 0
    /\ llmFaults = 0
    /\ applied = NotApplied

\* a single processTranscript call, the call 1
NextBatch ==
    \/ \E t \in {u \in SeqsUpTo({TurnAlice, TurnBob}, MaxBatchTurns) :
                    Len(u) = MaxBatchTurns /\ u[1] = TurnAlice} :
          ProcessTranscript(1, t, SessionFileOf(1))
    \/ \E i \in calls[1].pending, resp \in ExtractorResponses :
          LLMExtractSettles(1, i, resp)
    \/ ProcessTranscriptStore(1)

SpecBatch == InitBatch /\ [][NextBatch]_vars

(***************************************************************************)
(* The entropy filter inside processTranscript: the specification          *)
(* SpecFilter gives one processTranscript call transcripts of              *)
(* MaxBatchTurns turns, among them turns without a name and turns whose    *)
(* windows score exactly the threshold, over an empty store or the store   *)
(* an earlier pipeline left.                                               *)
(***************************************************************************)
\* Bob says ten characters and names nothing
TurnBobShort == [speaker |-> "Bob", content |-> [len |-> 10, caps |-> <<>>]]

\* turns without a speaker: with TurnBobShort a window of 100 or 101 characters
TurnNarration == [speaker |-> NoStr, content |-> [len |-> 90, caps |-> <<>>]]

TurnLongNarration == [speaker |-> NoStr, content |-> [len |-> 91, caps |-> <<>>]]

FilterTranscripts ==
    {t \in SeqsUpTo({TurnAlice, TurnBobShort, TurnNarration, TurnLongNarration},
                    MaxBatchTurns) : Len(t) = MaxBatchTurns}

InitFilter ==
    /\ config = PipelineConfig(TRUE, TRUE, TRUE, FALSE, DefaultRetrieval)
    /\ timer = FALSE
    /\ \E store \in {[facts |-> <<>>, windows |-> <<>>, stats |-> <<>>, nextId |-> 1],
                    EarlierStore} :
         /\ facts = store.facts
         /\ windows = store.windows
         /\ stats = store.stats
         /\ nextId = store.nextId
    /\ calls = [c \in 1..MaxCalls |-> IdleCall]
    /\ runs = [r \in 1..MaxRuns |-> IdleRun]
    /\ searches = <<>>
    /\ now = Today
    /\ storeFaults = 0
    /\ llmFaults = 0
    /\ applied = NotApplied

NextFilter ==
    \/ \E t \in FilterTranscripts : ProcessTranscript(1, t, SessionFileOf(1))
    \/ \E i \in calls[1].pending, resp \in {[kind |-> "reject", facts |-> <<>>], RespBob} :
          LLMExtractSettles(1, i, resp)
    \/ ProcessTranscriptStore(1)

SpecFilter == InitFilter /\ [][NextFilter]_vars

(***************************************************************************)
(* recursiveConsolidation over several levels: the specification           *)
(* SpecConsolidate starts from a store of up to MaxStoredFacts similar     *)
(* level-0 facts, with clusters of minFactsForCluster facts at most, makes *)
(* one runConsolidation call and lets every Consolidation LLM call that is *)
(* waiting return.                                                         *)
(***************************************************************************)
MaxStoredFacts == 8

\* n stored level-0 facts about Alice and Acme
SimilarFacts(n) ==
    [i \in 1..n |->
       [ChildFact(i, IF i % 2 = 1 THEN FdAliceWorks ELSE FdAliceLeads, NoId)
          EXCEPT !.level = 0, !.sourceWindowId = WindowIdOf(0, 1)]]

InitConsolidate ==
    /\ \E maxLevel \in 1..MaxConsolidationLevel :
         config = [PipelineConfig(TRUE, TRUE, TRUE, FALSE, DefaultRetrieval) EXCEPT
                     !.consolidation.maxFactsPerCluster = MinFactsForCluster,
                     !.consolidation.maxConsolidationLevel = maxLevel]
    /\ timer = FALSE
    /\ \E n \in 0..MaxStoredFacts : facts = SimilarFacts(n)
    /\ windows = <<>>
    /\ stats = <<>>
    /\ nextId = MaxStoredFacts + 1
    /\ calls = [c \in 1..MaxCalls |-> IdleCall]
    /\ runs = [r \in 1..MaxRuns |-> IdleRun]
    /\ searches = <<>>
    /\ now = Today
    /\ storeFaults = 0
    /\ llmFaults = 0
    /\ applied = NotApplied

NextConsolidate ==
    \/ RunConsolidation(1, "caller")
    \/ \E resp \in ConsolidatorResponses : LLMConsolidateSettles(1, resp)
    \/ RunConsolidationStore(1)

\* every LLM call returns: the call a run waits for is answered at some time
SpecConsolidate ==
    /\ InitConsolidate
    /\ [][NextConsolidate]_vars
    /\ WF_vars(\E resp \in ConsolidatorResponses : LLMConsolidateSettles(1, resp))

\* a run that was started takes the steps it can take by itself, and nothing
\* is assumed of the Consolidation LLM: a call may stay without an answer
SpecSilentLLM ==
    /\ InitConsolidate
    /\ [][NextConsolidate]_vars
    /\ WF_vars(RunConsolidationStore(1))

(***************************************************************************)
(* The constructor over any consolidation limits: createSimpleMemPipeline  *)
(* spreads the given configuration over the defaults and the constructor   *)
(* keeps it as it is and starts the timer.                                 *)
(***************************************************************************)
InitConstruct ==
    /\ \E minFacts \in 1..MinFactsForCluster, maxFacts \in 0..MaxFactsPerCluster,
          llmConsolidate \in BOOLEAN, backgroundConsolidation \in BOOLEAN :
         config = [PipelineConfig(TRUE, TRUE, llmConsolidate, backgroundConsolidation,
                                  DefaultRetrieval) EXCEPT
                     !.consolidation.minFactsForCluster = minFacts,
                     !.consolidation.maxFactsPerCluster = maxFacts]
    /\ timer = (config.backgroundConsolidation /\ config.llmConsolidate)
    /\ \E n \in 0..MaxStoredFacts : facts = SimilarFacts(n)
    /\ windows = <<>>
    /\ stats = <<>>
    /\ nextId = MaxStoredFacts + 1
    /\ calls = [c \in 1..MaxCalls |-> IdleCall]
    /\ runs = [r \in 1..MaxRuns |-> IdleRun]
    /\ searches = <<>>
    /\ now = Today
    /\ storeFaults = 0
    /\ llmFaults = 0
    /\ applied = NotApplied

NextConstruct ==
    \/ \E origin \in {"caller", "timer"} : RunConsolidation(1, origin)
    \/ \E resp \in ConsolidatorResponses : LLMConsolidateSettles(1, resp)
    \/ RunConsolidationStore(1)
    \/ StopBackgroundConsolidation

SpecConstruct == InitConstruct /\ [][NextConstruct]_vars

(***************************************************************************)
(* search over a store of atomic and consolidated facts: the specification *)
(* SpecPrefer draws up to MaxPreferFacts facts of level 0 and as many of   *)
(* level 1, which name the first fact of the store as their parent.        *)
(***************************************************************************)
MaxPreferFacts == 2

ConsolidatedFacts(n, m) ==
    [j \in 1..m |->
       [ChildFact(n + j, FdAliceWorks, IF n > 0 THEN 1 ELSE NoId) EXCEPT
          !.statement = "Summary of the related facts"]]

InitPrefer ==
    /\ config \in {PipelineConfig(TRUE, FALSE, FALSE, FALSE, rc) : rc \in RetrievalConfigs}
    /\ timer = FALSE
    /\ \E n \in 0..MaxPreferFacts, m \in 0..MaxPreferFacts :
         facts = SimilarFacts(n) \o ConsolidatedFacts(n, m)
    /\ windows = <<>>
    /\ stats = <<>>
    /\ nextId = 2 * MaxPreferFacts + 1
    /\ calls = [c \in 1..MaxCalls |-> IdleCall]
    /\ runs = [r \in 1..MaxRuns |-> IdleRun]
    /\ searches = <<>>
    /\ now = Today
    /\ storeFaults = 0
    /\ llmFaults = 0
    /\ applied = NotApplied

SpecPrefer == InitPrefer /\ [][NextRetrieve]_vars

(***************************************************************************)
(* search over facts of different lengths: the specification SpecSelect    *)
(* draws up to MaxSelectFacts facts, in any order, from facts of 4 and of  *)
(* 5 tokens.                                                               *)
(***************************************************************************)
MaxSelectFacts == 4

InitSelect ==
    /\ config \in {PipelineConfig(TRUE, FALSE, FALSE, FALSE, rc) : rc \in RetrievalConfigs}
    /\ timer = FALSE
    /\ \E fds \in SeqsUpTo({FdAliceLeads, FdBobFlew, FdBobLeft}, MaxSelectFacts) :
         facts = [i \in 1..Len(fds) |-> ChildFact(i, fds[i], NoId)]
    /\ windows = <<>>
    /\ stats = <<>>
    /\ nextId = MaxSelectFacts + 1
    /\ calls = [c \in 1..MaxCalls |-> IdleCall]
    /\ runs = [r \in 1..MaxRuns |-> IdleRun]
    /\ searches = <<>>
    /\ now = Today
    /\ storeFaults = 0
    /\ llmFaults = 0
    /\ applied = NotApplied

SpecSelect == InitSelect /\ [][NextRetrieve]_vars

(***************************************************************************)
(* The runs of the interval timer: the specification SpecSchedule          *)
(* constructs a pipeline with background consolidation over up to          *)
(* MaxScheduleFacts similar level-0 facts; runs are started by the timer   *)
(* and by the program.                                                     *)
(***************************************************************************)
MaxScheduleFacts == 3

InitSchedule ==
    /\ config = PipelineConfig(TRUE, TRUE, TRUE, TRUE, DefaultRetrieval)
    /\ timer = (config.backgroundConsolidation /\ config.llmConsolidate)
    /\ \E n \in 0..MaxScheduleFacts : facts = SimilarFacts(n)
    /\ windows = <<>>
    /\ stats = <<>>
    /\ nextId = MaxScheduleFacts + 1
    /\ calls = [c \in 1..MaxCalls |-> IdleCall]
    /\ runs = [r \in 1..MaxRuns |-> IdleRun]
    /\ searches = <<>>
    /\ now = Today
    /\ storeFaults = 0
    /\ llmFaults = 0
    /\ applied = NotApplied

NextSchedule ==
    \/ \E r \in 1..MaxRuns, origin \in {"caller", "timer"} : RunConsolidation(r, origin)
    \/ \E r \in 1..MaxRuns, resp \in ConsolidatorResponses : LLMConsolidateSettles(r, resp)
    \/ \E r \in 1..MaxRuns : RunConsolidationStore(r)
    \/ StopBackgroundConsolidation

SpecSchedule == InitSchedule /\ [][NextSchedule]_vars

(***************************************************************************)
(* Properties                                                              *)
(***************************************************************************)
\* the results search has returned
SearchResults == {searches[i].result[1] : i \in {j \in 1..Len(searches) : searches[j].result # <<>>}}

\* C1: for every query, every list of facts and every retrieval
\* configuration, the result of search holds at most strategy.maxFacts facts
\* and its totalTokens is at most strategy.maxTokens.
C1_WithinMaxFactsAndTokens ==
    \A res \in SearchResults :
       /\ Len(res.facts) <= res.strategy.maxFacts
       /\ res.totalTokens <= res.strategy.maxTokens

\* the positions a call or a run has when it is over
Finished == {"returned", "threw"}

\* the ids of the rows of fs
IdsOf(fs) == {fs[i].id : i \in 1..Len(fs)}

\* the position of the row of id `id` in the table, 0 when there is none
RowOf(table, id) ==
    IF \E i \in 1..Len(table) : table[i].id = id
    THEN CHOOSE i \in 1..Len(table) : table[i].id = id
    ELSE 0

\* every row of the table is a row of the table after the step
RowsKept(table, tableAfter) ==
    \A i \in 1..Len(table) : \E j \in 1..Len(tableAfter) : tableAfter[j] = table[i]

\* the table after the step is the table followed by further rows
IsPrefix(table, tableAfter) ==
    /\ Len(table) <= Len(tableAfter)
    /\ \A i \in 1..Len(table) : tableAfter[i] = table[i]

\* C2: when the Extractor LLM fails for a kept window of a processTranscript
\* call, the call does not fail as a whole: it goes on, and once it has
\* returned, its result is there and every fact extracted from its other
\* windows is stored.
C2_ExtractorFailureIsolated ==
    \A c \in 1..MaxCalls :
       calls[c].failed # {} =>
          /\ calls[c].pc # "threw"
          /\ calls[c].pc = "returned" =>
                /\ calls[c].result # <<>>
                /\ \A k \in (1..Len(calls[c].windowFacts)) \ calls[c].failed :
                      \A i \in 1..Len(calls[c].windowFacts[k]) :
                         \E j \in 1..Len(calls[c].stored) :
                            normalizeFactKey(calls[c].stored[j])
                               = normalizeFactKey(calls[c].windowFacts[k][i])

\* C3: when the Consolidation LLM fails on one cluster of a runConsolidation
\* that has further clusters to consolidate, the run does not fail: it goes
\* on with the remaining clusters, and once it has returned it has stored
\* the facts consolidated from them.
C3_ConsolidatorFailureIsolated ==
    \A r \in 1..MaxRuns :
       (runs[r].failed # <<>> /\ Len(runs[r].clusters) >= 2) =>
          /\ runs[r].pc # "threw"
          /\ runs[r].pc = "returned" => runs[r].stored # <<>>

\* the facts a run has to store: those recursiveConsolidation added
NewFactsOf(r) ==
    SubSeq(runs[r].allFacts, Len(runs[r].atomicFacts) + 1, Len(runs[r].allFacts))

\* C4: when a write fails while processTranscript or runConsolidation stores
\* its batch of facts, no fact of the batch is in atomic_facts once the call
\* has failed.
C4_FailedBatchRolledBack ==
    /\ \A c \in 1..MaxCalls :
          (calls[c].pc = "threw" /\ Len(calls[c].stored) < Len(calls[c].uniqueFacts)) =>
             IdsOf(facts) \cap IdsOf(calls[c].uniqueFacts) = {}
    /\ \A r \in 1..MaxRuns :
          (runs[r].pc = "threw" /\ runs[r].failed = <<>>) =>
             IdsOf(facts) \cap IdsOf(NewFactsOf(r)) = {}

\* C5: every search has read none or all of the facts that a processTranscript
\* call stores (the rows the call writes to atomic_facts), whenever the
\* search ran with respect to the call, at its LLM calls included.
C5_SearchSeesNoneOrAll ==
    \A c \in 1..MaxCalls :
       \A s \in 1..Len(searches) :
          \/ Range(searches[s].seen) \cap IdsOf(calls[c].stored) = {}
          \/ IdsOf(calls[c].stored) \subseteq Range(searches[s].seen)

\* a search ran while a call was suspended at an LLM call, and the call has
\* stored two facts or more since
C5_SearchDuringCall ==
    \E s \in 1..Len(searches) :
       \E c \in searches[s].inProgress :
          /\ searches[s].result # <<>>
          /\ Cardinality(IdsOf(calls[c].stored)) >= 2

\* C6: when no processTranscript call is in progress, every window stored in
\* conversation_windows has a row of compression_stats of its session file.
C6_KeptWindowsHaveStats ==
    (\A c \in 1..MaxCalls : calls[c].pc \in {"idle"} \cup Finished) =>
       \A w \in 1..Len(windows) :
          \E k \in 1..Len(stats) :
             stats[k].sourceSessionFile = windows[w].sourceSessionFile

\* C7: the step in which a processTranscript call ends, by a return or by an
\* error, adds exactly one row to compression_stats.
C7_OneStatRowPerCall ==
    [][\A c \in 1..MaxCalls :
          (calls[c].pc \notin Finished /\ calls'[c].pc \in Finished) =>
             Len(stats') = Len(stats) + 1]_vars

\* C8: a row of conversation_windows stays as it is in every step.
C8_WindowRowsNeverChange == [][RowsKept(windows, windows')]_vars

\* C9: a row of atomic_facts stays, with the same values, in every step of
\* every operation.
C9_FactRowsNeverChange == [][RowsKept(facts, facts')]_vars

\* a run and a call have both stored facts besides the facts that were there
C9_FactsAddedToStoredFacts ==
    \E r \in 1..MaxRuns, c \in 1..MaxCalls :
       /\ runs[r].stored # <<>>
       /\ calls[c].stored # <<>>
       /\ Len(facts) > Len(runs[r].stored) + Len(calls[c].stored)

\* the level-0 facts that were stored when run r started
AtomicAtStart(r) ==
    {id \in Range(runs[r].factsAtStart) :
        RowOf(facts, id) # 0 /\ facts[RowOf(facts, id)].level = 0}

\* a run that has read the store takes the level-0 facts stored at its start
\* and consolidates these and the facts it has consolidated from them
RunKeepsSnapshot ==
    \A r \in 1..MaxRuns :
       (runs[r].pc # "idle" /\ config.enabled /\ config.llmConsolidate) =>
          /\ IdsOf(runs[r].atomicFacts) = AtomicAtStart(r)
          /\ \A k \in 1..Len(runs[r].consolidated) :
                runs[r].consolidated[k].sources
                   \subseteq AtomicAtStart(r)
                             \cup {runs[r].consolidated[j].fact : j \in 1..(k - 1)}
          /\ \A c \in 1..MaxCalls :
                IdsOf(calls[c].stored) \cap Range(runs[r].factsAtStart) = {} =>
                   \A k \in 1..Len(runs[r].consolidated) :
                      runs[r].consolidated[k].sources \cap IdsOf(calls[c].stored) = {}
          /\ runs[r].result # <<>> =>
                runs[r].result[1].factsConsolidated
                   \in {0, Cardinality(AtomicAtStart(r))}

\* C10: a runConsolidation consolidates the level-0 facts that were stored
\* when it started and no fact stored since, and every step of the run leaves
\* the rows of atomic_facts as they are and in their order, adding rows after
\* them only.
C10_RunConsolidatesSnapshot ==
    /\ []RunKeepsSnapshot
    /\ [][\A r \in 1..MaxRuns : runs'[r] # runs[r] => IsPrefix(facts, facts')]_vars

\* a run has returned and stored a consolidated fact after the facts that a
\* call stored while the run was suspended
C10_CallStoredDuringRun ==
    \E r \in 1..MaxRuns, c \in 1..MaxCalls :
       /\ runs[r].pc = "returned"
       /\ runs[r].stored # <<>>
       /\ calls[c].stored # <<>>
       /\ IdsOf(calls[c].stored) \cap Range(runs[r].factsAtStart) = {}
       /\ \A i \in 1..Len(calls[c].stored) :
             /\ calls[c].stored[i].level = 0
             /\ 0 < RowOf(facts, calls[c].stored[i].id)
             /\ RowOf(facts, calls[c].stored[i].id) < RowOf(facts, runs[r].stored[1].id)

\* the index ranges of a list of windows, in order
RangesOf(ws) == [i \in 1..Len(ws) |-> <<ws[i].startIndex, ws[i].endIndex>>]

C12_FiveTurnsTwoWindows ==
    (applied.op = "createConversationWindows" /\ Len(applied.turns) = 5) =>
      /\ (applied.windowSize = 2 /\ applied.stride = 2) =>
            RangesOf(applied.result) = <<(<<0, 1>>), (<<2, 3>>)>>
      /\ (applied.windowSize = 3 /\ applied.stride = 2) =>
            /\ RangesOf(applied.result) = <<(<<0, 2>>), (<<2, 4>>)>>
            /\ \A i \in 1..Len(applied.result) : Len(applied.result[i].turns) = 3

\* C13: every stored fact of level 0 has no parent (cluster) id and has a
\* source window id, and every stored fact of a level above 0 has a parent
\* (cluster) id, after any sequence of processTranscript and runConsolidation
\* calls.
C13_LevelsAndLinks ==
    \A i \in 1..Len(facts) :
      /\ facts[i].level = 0 =>
            (facts[i].parentId = NoId /\ facts[i].sourceWindowId # NoWindowId)
      /\ facts[i].level > 0 => facts[i].parentId # NoId

\* the store holds extracted facts and a consolidated fact
C13_BothKindsStored ==
    /\ \E i \in 1..Len(facts) : facts[i].level = 0
    /\ \E i \in 1..Len(facts) : facts[i].level > 0

\* the level of the fact `id` among the facts of a run
LevelIn(allFacts, id) ==
    (CHOOSE f \in Range(allFacts) : f.id = id).level

\* the pairs <<consolidated fact, source fact>> of every run
SourceEdges ==
    UNION {UNION {{<<c.fact, src>> : src \in c.sources} : c \in Range(runs[r].consolidated)} :
           r \in 1..MaxRuns}

\* the pairs joined by a path of at most n edges of E
RECURSIVE PathsUpTo(_, _)
PathsUpTo(E, n) ==
    IF n <= 1 THEN E
    ELSE LET P == PathsUpTo(E, n - 1)
         IN  P \cup {<<pe[1][1], pe[2][2]>> : pe \in {x \in P \X E : x[1][2] = x[2][1]}}

\* C14: a consolidated fact has the level max(levels of its cluster's source
\* facts) + 1, above the level of each source fact, and the relation from
\* consolidated facts to their source facts built by the consolidation runs
\* has no cycle.
C14_LevelAboveSources ==
    /\ \A r \in 1..MaxRuns : \A c \in Range(runs[r].consolidated) :
          /\ LevelIn(runs[r].allFacts, c.fact)
               = SetMax({LevelIn(runs[r].allFacts, src) : src \in c.sources}) + 1
          /\ \A src \in c.sources :
               LevelIn(runs[r].allFacts, c.fact) > LevelIn(runs[r].allFacts, src)
    /\ \A e \in PathsUpTo(SourceEdges, Cardinality(SourceEdges)) : e[1] # e[2]

\* two runs have each consolidated a cluster of extracted facts
C14_ClustersConsolidated ==
    \A r \in 1..MaxRuns : \E c \in Range(runs[r].consolidated) :
      /\ LevelIn(runs[r].allFacts, c.fact) = 1
      /\ Cardinality(c.sources) >= MinFactsForCluster

\* C15: the keywords, the persons and the entities of a consolidated fact are
\* each the union of the corresponding sets of the cluster's source facts.
C15_SetsAreUnions ==
    applied.op = "consolidateCluster" =>
      LET fs == applied.cluster.facts
      IN  /\ Range(applied.result.keywords) = UNION {Range(fs[i].keywords) : i \in 1..Len(fs)}
          /\ Range(applied.result.persons) = UNION {Range(fs[i].persons) : i \in 1..Len(fs)}
          /\ Range(applied.result.entities) = UNION {Range(fs[i].entities) : i \in 1..Len(fs)}

\* a cluster whose facts differ in keywords, persons and entities
C15_DifferentSetsMerged ==
    /\ applied.op = "consolidateCluster"
    /\ Cardinality(Range(applied.result.keywords)) >= 2
    /\ Cardinality(Range(applied.result.persons)) >= 2
    /\ Cardinality(Range(applied.result.entities)) >= 2
    /\ \A i \in 1..Len(applied.cluster.facts) :
          Range(applied.cluster.facts[i].entities) # Range(applied.result.entities)

\* a confidence <<numerator, denominator>> in percent
PctOf(x) == x[1] * (100 \div x[2])

\* C16: the confidence of the consolidated fact of a non-empty cluster is the
\* arithmetic mean of the confidences of the cluster's source facts.
C16_ConfidenceIsMean ==
    (applied.op = "consolidateCluster" /\ applied.cluster.facts # <<>>) =>
      LET fs == applied.cluster.facts
      IN  applied.result.confidence[1] * 100 * Len(fs)
            = applied.result.confidence[2] * SumSeq([i \in 1..Len(fs) |-> PctOf(fs[i].confidence)])

\* a cluster of facts of different confidences
C16_DifferentConfidences ==
    /\ applied.op = "consolidateCluster"
    /\ Len(applied.cluster.facts) >= 2
    /\ \E i, j \in 1..Len(applied.cluster.facts) :
          applied.cluster.facts[i].confidence # applied.cluster.facts[j].confidence

\* C17: calculateFactSimilarity(a, a, config) = 1 for every fact a and every
\* config that enables a clustering dimension on which a has content
\* (entities or persons with entityClustering, a topic with topicClustering,
\* a timestamp with temporalClustering).
C17_SelfSimilarityIsOne ==
    (/\ applied.op = "calculateFactSimilarity"
     /\ applied.fact1 = applied.fact2
     /\ \/ applied.config.entityClustering
            /\ (applied.fact1.entities # <<>> \/ applied.fact1.persons # <<>>)
        \/ applied.config.topicClustering /\ applied.fact1.topic # NoStr
        \/ applied.config.temporalClustering /\ applied.fact1.timestamp # NoTs)
      => applied.result = <<1, 1>>

\* C18: at most maxParallelWorkers Extractor LLM calls of a batch are in
\* flight at any moment, and the calls of the next chunk start only once
\* every call of the chunk before has finished.
C18_ChunksOneAfterAnother ==
    [][\A c \in 1..MaxCalls :
         /\ Cardinality(calls'[c].pending) <= MaxParallelWorkers
         /\ (calls'[c].pending \ calls[c].pending # {}) =>
               /\ calls'[c].pending \cap calls[c].pending = {}
               /\ Cardinality(calls[c].pending) <= 1]_vars

\* the call of the third window is in flight after the first two have
\* answered
C18_SecondChunkInFlight ==
    \E c \in 1..MaxCalls :
      /\ calls[c].pc = "extract"
      /\ Len(calls[c].windowsToProcess) > MaxParallelWorkers
      /\ calls[c].pending = {MaxParallelWorkers + 1}

\* the key of a fact as a tuple: the lower-cased whitespace-collapsed
\* statement, the sorted entities and the sorted persons
KeyTuple(fact) ==
    <<CollapseWhitespace(ToLowerCase(fact.statement)),
      SortedFrom(fact.entities, 1), SortedFrom(fact.persons, 1)>>

\* the facts of fs from the i-th on whose key tuple no earlier fact of fs has
RECURSIVE FirstOccurrencesFrom(_, _)
FirstOccurrencesFrom(fs, i) ==
    IF i > Len(fs) THEN <<>>
    ELSE (IF \A j \in 1..(i - 1) : KeyTuple(fs[j]) # KeyTuple(fs[i]) THEN <<fs[i]>> ELSE <<>>)
           \o FirstOccurrencesFrom(fs, i + 1)

\* C19: deduplicateAtomicFacts returns the subsequence of its input made of
\* the first occurrence of each key (lower-cased whitespace-collapsed
\* statement, sorted entities, sorted persons): no two returned facts share a
\* key, every key of the input is the key of a returned fact, and the function
\* applied to its own output returns that output.
C19_FirstOccurrenceOfEachKey ==
    applied.op = "deduplicateAtomicFacts" =>
      /\ applied.result = FirstOccurrencesFrom(applied.facts, 1)
      /\ \A i, j \in 1..Len(applied.result) :
            KeyTuple(applied.result[i]) = KeyTuple(applied.result[j]) => i = j
      /\ \A i \in 1..Len(applied.facts) : \E j \in 1..Len(applied.result) :
            KeyTuple(applied.result[j]) = KeyTuple(applied.facts[i])
      /\ applied.again = applied.result

\* the confidence, in percent, that the i-th fact of a response counts with
ConfidenceOf(response, i) ==
    IF response.facts[i].confidence = NoConf THEN DefaultConfidencePct
    ELSE response.facts[i].confidence

\* the positions of the facts of a response that pass the confidence gate
Passing(response) ==
    {i \in 1..Len(response.facts) : ConfidenceOf(response, i) >= MinConfidencePct}

\* the j-th position of a set of positions
NthOf(positions, j) ==
    CHOOSE i \in positions : Cardinality({p \in positions : p < i}) = j - 1

\* C20: for a valid response extractAtomicFacts returns, in response order,
\* the first maxFactsPerWindow facts among those of confidence >=
\* minConfidence (a missing confidence counts as 0.8): no returned fact is
\* below minConfidence, at most maxFactsPerWindow facts are returned, and the
\* facts dropped by the confidence gate do not count toward the cap.
C20_FirstConfidentFacts ==
    applied.op = "extractAtomicFacts" =>
      /\ Len(applied.result)
           = IF Cardinality(Passing(applied.response)) <= MaxFactsPerWindow
             THEN Cardinality(Passing(applied.response)) ELSE MaxFactsPerWindow
      /\ \A j \in 1..Len(applied.result) :
            /\ applied.result[j].statement
                 = applied.response.facts[NthOf(Passing(applied.response), j)].statement
            /\ PctOf(applied.result[j].confidence)
                 = ConfidenceOf(applied.response, NthOf(Passing(applied.response), j))
            /\ PctOf(applied.result[j].confidence) >= MinConfidencePct

\* a response of more confident facts than the cap, the last returned fact
\* being one of no confidence that follows a fact the gate dropped
C20_CapAfterDroppedFact ==
    /\ applied.op = "extractAtomicFacts"
    /\ Len(applied.result) = MaxFactsPerWindow
    /\ Cardinality(Passing(applied.response)) > MaxFactsPerWindow
    /\ \E i \in 1..Len(applied.response.facts) :
          /\ i \notin Passing(applied.response)
          /\ i < NthOf(Passing(applied.response), MaxFactsPerWindow)
    /\ applied.response.facts[NthOf(Passing(applied.response),
                                     MaxFactsPerWindow)].confidence = NoConf

\* the number of words query.split(/\s+/) gives
WordCount(query) == IF query = <<>> THEN 1 ELSE Len(query)

\* C21: analyzeQuery classifies a query as complex if it requires reasoning,
\* has more than 15 words or has a topic; otherwise as moderate if it has more
\* than 8 words, more than 2 entities or a temporal indicator; otherwise as
\* simple; and the strategy of a complex query has preferConsolidated = false.
C21_ComplexityBuckets ==
    applied.op = "analyzeQuery" =>
      /\ applied.analysis.complexity
           = IF \/ applied.analysis.requiresReasoning
                \/ WordCount(applied.query) > 15
                \/ applied.analysis.topics # <<>>
             THEN "complex"
             ELSE IF \/ WordCount(applied.query) > 8
                     \/ Len(applied.analysis.entities) > 2
                     \/ applied.analysis.temporal # NoStr
             THEN "moderate"
             ELSE "simple"
      /\ applied.analysis.complexity = "complex" => ~applied.strategy.preferConsolidated

\* a query of 16 words, without a reasoning word or a topic, is complex, and
\* its strategy does not prefer consolidated facts although the config does
C21_SixteenWordsComplex ==
    /\ applied.op = "analyzeQuery"
    /\ Len(applied.query) = 16
    /\ ~applied.analysis.requiresReasoning
    /\ applied.analysis.topics = <<>>
    /\ applied.analysis.complexity = "complex"
    /\ applied.config.preferConsolidated
    /\ ~applied.strategy.preferConsolidated

\* C23: every cluster clusterAtomicFacts returns has at least
\* minFactsForCluster and at most maxFactsPerCluster facts, for every input
\* and config (so none is returned when maxFactsPerCluster <
\* minFactsForCluster).
C23_ClusterSizeWithinLimits ==
    applied.op = "clusterAtomicFacts" =>
      \A k \in 1..Len(applied.result) :
        /\ Len(applied.result[k].facts) >= applied.config.minFactsForCluster
        /\ Len(applied.result[k].facts) <= applied.config.maxFactsPerCluster

\* C29: clusterAtomicFacts takes the facts as seeds and candidates in
\* ascending timestamp order, every undated fact after every dated fact,
\* whatever the order of the input array.
C29_ConsideredByTimestamp ==
    applied.op = "clusterAtomicFacts" =>
      \A i, j \in 1..Len(applied.considered) :
        i < j =>
          /\ (applied.considered[i].timestamp # NoTs /\ applied.considered[j].timestamp # NoTs)
                => applied.considered[i].timestamp <= applied.considered[j].timestamp
          /\ ~(applied.considered[i].timestamp = NoTs /\ applied.considered[j].timestamp # NoTs)

\* the facts of level `level` among the facts of a run
LevelFacts(run, level) == SelectSeq(run.allFacts, LAMBDA f : f.level = level)

\* recursiveConsolidation of run r has returned
ConsolidationReturned(r) ==
    /\ runs[r].pc \in {"store", "returned"}
    /\ Len(runs[r].atomicFacts) >= config.consolidation.minFactsForCluster
    /\ config.enabled /\ config.llmConsolidate

\* C22: recursiveConsolidation, started from level-0 facts, terminates when
\* every LLM call returns, produces no fact of a level above
\* maxConsolidationLevel, and stops at the first level that has fewer than
\* minFactsForCluster facts or gives no cluster.
C22_ConsolidationStops ==
    /\ [](\A r \in 1..MaxRuns :
            /\ \A i \in 1..Len(runs[r].allFacts) :
                  runs[r].allFacts[i].level <= config.consolidation.maxConsolidationLevel
            /\ ConsolidationReturned(r) =>
                  /\ \A level \in 1..runs[r].currentLevel : LevelFacts(runs[r], level) # <<>>
                  /\ LevelFacts(runs[r], runs[r].currentLevel + 1) = <<>>
                  /\ \/ runs[r].currentLevel = config.consolidation.maxConsolidationLevel
                     \/ Len(LevelFacts(runs[r], runs[r].currentLevel))
                          < config.consolidation.minFactsForCluster
                     \/ clusterAtomicFacts(LevelFacts(runs[r], runs[r].currentLevel),
                                           config.consolidation, 1, now) = <<>>)
    /\ (runs[1].pc = "consolidate") ~> (runs[1].pc # "consolidate")

\* a run has stopped at maxConsolidationLevel although the facts of that
\* level would still cluster
C22_StoppedAtMaxLevel ==
    \E r \in 1..MaxRuns :
      /\ ConsolidationReturned(r)
      /\ runs[r].currentLevel = config.consolidation.maxConsolidationLevel
      /\ clusterAtomicFacts(LevelFacts(runs[r], runs[r].currentLevel),
                            config.consolidation, 1, now) # <<>>

\* C24: once stopBackgroundConsolidation has returned there is no timer, none
\* is started again and no runConsolidation is started by the timer; a timer
\* exists only in a pipeline constructed with backgroundConsolidation on and
\* with a consolidation function.
C24_NoTimerRunAfterStop ==
    /\ [](timer => config.backgroundConsolidation /\ config.llmConsolidate)
    /\ [][~timer => /\ ~timer'
                    /\ \A r \in 1..MaxRuns :
                          runs'[r].origin = "timer" => runs[r].origin = "timer"]_vars

\* the timer has started a run and was stopped afterwards
C24_StoppedAfterTimerRun ==
    /\ ~timer
    /\ config.backgroundConsolidation /\ config.llmConsolidate
    /\ \E r \in 1..MaxRuns : runs[r].origin = "timer"

\* C25: every LLM call is bounded by a timeout, so runConsolidation completes
\* (returns or throws) although the LLM call it waits for is never answered.
C25_CompletesWithoutAnswer ==
    (runs[1].pc = "consolidate") ~> (runs[1].pc \in {"returned", "threw"})

\* C26: a configuration that fails validation (here maxFactsPerCluster <
\* minFactsForCluster) gives no pipeline: no timer runs for it and no
\* operation is ever started on it.
C26_InvalidConfigRefused ==
    config.consolidation.maxFactsPerCluster < config.consolidation.minFactsForCluster
      => ~timer /\ runs[1].pc = "idle"

\* C27: search with the empty query returns a QueryInvalid error and no
\* retrieval result: no search has returned a result for the empty query.
C27_EmptyQueryRefused ==
    \A i \in 1..Len(searches) :
       searches[i].result = <<>> \/ searches[i].result[1].analysis.query # <<>>

\* alpha * n / sqrt(size) + (1 - alpha) * 0.5 >= entropyThreshold for the
\* score kept as <<n, size>>, in percent and without the square root
ScoreAtLeastThreshold(score) ==
    \/ 2 * EntropyThresholdPct <= 100 - EntityWeightPct
    \/ /\ score[2] > 0
       /\ (2 * EntityWeightPct * score[1]) * (2 * EntityWeightPct * score[1])
            >= (2 * EntropyThresholdPct - (100 - EntityWeightPct))
                 * (2 * EntropyThresholdPct - (100 - EntityWeightPct)) * score[2]

\* the results of the filter for the windows ws
FilterDecides(ws, rs) ==
    /\ Len(rs) = Len(ws)
    /\ \A i \in 1..Len(ws) :
          /\ rs[i].window.id = ws[i].id
          /\ rs[i].window.turns = ws[i].turns
          /\ rs[i].shouldKeep = ScoreAtLeastThreshold(rs[i].score)
          /\ rs[i].window.entropy = rs[i].score
          /\ rs[i].window.shouldProcess = rs[i].shouldKeep

\* the call takes the windows the filter keeps, in their order, stores them
\* (all of them unless a write fails) and makes LLM calls for them only
KeptWindowsTaken(rs, call, rowsBefore, rowsAfter) ==
    /\ call.windowsToProcess = WindowsToProcess(rs)
    /\ \A i \in 1..Len(call.windowsToProcess) : call.windowsToProcess[i].shouldProcess
    /\ {rowsAfter[i].id : i \in 1..Len(rowsAfter)} \ {rowsBefore[i].id : i \in 1..Len(rowsBefore)}
         \subseteq {rs[i].window.id : i \in {j \in 1..Len(rs) : rs[j].shouldKeep}}
    /\ call.pc # "threw" =>
          \A i \in 1..Len(rs) :
             rs[i].shouldKeep <=> \E j \in 1..Len(rowsAfter) :
                                     /\ rowsAfter[j].id = rs[i].window.id
                                     /\ rowsAfter[j].processedAt = now
                                     /\ rowsAfter[j].entropy = rs[i].score
    /\ call.pending \subseteq 1..Len(call.windowsToProcess)

ResultFrom(candidates, res) ==
    WithParents(SelectLoop(ArraySort(ScoreFacts(candidates, res.analysis, res.strategy,
                                                config.retrieval, now),
                                     "relevance"),
                           res.strategy, 0, 0),
                getAllFacts, config.retrieval, res.strategy)

\* C30: when the strategy prefers consolidated facts and a fact of level > 0
\* exists, the scored candidates are the facts of level > 0, so every result
\* that was not added as a parent has level > 0; otherwise the candidates
\* are all facts.
C30_CandidatesAreConsolidated ==
    \A i \in 1..Len(searches) :
       searches[i].result # <<>> =>
          IF /\ searches[i].result[1].strategy.preferConsolidated
             /\ \E k \in 1..Len(facts) : facts[k].level > 0
          THEN /\ \A j \in 1..Len(searches[i].result[1].facts) :
                     \/ searches[i].result[1].facts[j].matchReasons
                          = <<"Parent fact for context">>
                     \/ searches[i].result[1].facts[j].fact.level > 0
               /\ searches[i].result[1].facts
                    = ResultFrom(SelectSeq(getAllFacts, LAMBDA f : f.level > 0),
                                 searches[i].result[1])
          ELSE searches[i].result[1].facts = ResultFrom(getAllFacts, searches[i].result[1])

\* a search that prefers consolidated facts has returned facts, one of them
\* added as a parent, from a store that holds facts of level 0 and of level 1
C30_ConsolidatedPreferredOverAtomic ==
    \E i \in 1..Len(searches) :
       /\ searches[i].result # <<>>
       /\ searches[i].result[1].strategy.preferConsolidated
       /\ \E j \in 1..Len(searches[i].result[1].facts) :
             searches[i].result[1].facts[j].matchReasons = <<"Parent fact for context">>
       /\ \E k \in 1..Len(facts) : facts[k].level > 0
       /\ \E k \in 1..Len(facts) : facts[k].level = 0

\* the candidates of a search, scored and sorted by descending relevance
SortedCandidates(res) ==
    ArraySort(ScoreFacts(CandidateFacts(getAllFacts,
                                        SelectSeq(getAllFacts, LAMBDA f : f.level > 0),
                                        res.strategy),
                         res.analysis, res.strategy, config.retrieval, now),
              "relevance")

\* the results that were not added as parents
NonParents(res) ==
    SelectSeq(res.facts, LAMBDA rf : rf.matchReasons # <<"Parent fact for context">>)

\* sel is the longest prefix of sorted within maxFacts facts and maxTokens tokens
LongestPrefixWithin(sel, sorted, strategy) ==
    /\ Len(sel) <= Len(sorted)
    /\ sel = SubSeq(sorted, 1, Len(sel))
    /\ Len(sel) <= strategy.maxFacts
    /\ TotalTokens(sel) <= strategy.maxTokens
    /\ Len(sel) < Len(sorted) =>
          \/ Len(sel) = strategy.maxFacts
          \/ TotalTokens(sel) + sorted[Len(sel) + 1].estimatedTokens > strategy.maxTokens

\* C31: the facts adaptiveRetrieve selects (the parents aside) are the longest
\* prefix of the candidates sorted by descending relevance that stays within
\* maxFacts facts and maxTokens tokens: no candidate is selected after a
\* candidate of a higher rank was rejected.
C31_SelectionIsLongestPrefix ==
    \A i \in 1..Len(searches) :
       searches[i].result # <<>> =>
          LongestPrefixWithin(NonParents(searches[i].result[1]),
                              SortedCandidates(searches[i].result[1]),
                              searches[i].result[1].strategy)

\* a search has stopped at a fact over the token budget although a fact of a
\* lower rank would have fitted
C31_SmallerFactBehindRejected ==
    \E i \in 1..Len(searches) :
       /\ searches[i].result # <<>>
       /\ \E k \in 1..Len(SortedCandidates(searches[i].result[1])) :
             /\ k > Len(NonParents(searches[i].result[1])) + 1
             /\ Len(NonParents(searches[i].result[1])) < searches[i].result[1].strategy.maxFacts
             /\ TotalTokens(NonParents(searches[i].result[1]))
                  + SortedCandidates(searches[i].result[1])[k].estimatedTokens
                  <= searches[i].result[1].strategy.maxTokens

\* run r ends with a rejection in this step
RunFails(r) == runs[r].pc # "threw" /\ runs'[r].pc = "threw"

\* C32: a run started by the timer that fails (LLM or store error) leaves the
\* timer running, so that the next tick starts a run, and touches no call,
\* search or other run of the program.
C32_FailedRunKeepsSchedule ==
    [][\A r \in 1..MaxRuns :
          runs[r].origin = "timer" /\ RunFails(r) =>
             /\ timer' = timer
             /\ calls' = calls
             /\ searches' = searches
             /\ \A q \in 1..MaxRuns \ {r} : runs'[q] = runs[q]]_vars

\* the timer has started a run after a run it started had failed
C32_TickAfterFailedRun ==
    /\ timer
    /\ runs[1].origin = "timer" /\ runs[1].pc = "threw" /\ runs[1].failed = <<>>
    /\ runs[2].origin = "timer" /\ runs[2].pc # "idle"

(***************************************************************************)
(* The range of the entropy score.                                         *)
(***************************************************************************)
\* score <= 1 for the score alpha * n / sqrt(size) + (1 - alpha) * 0.5 kept as
\* <<n, size>>:  2 * alpha * n / sqrt(size) <= 200 - (100 - alpha)  (percent)
ScoreAtMostOne(score, alphaPct) ==
    LET n == score[1]
        size == score[2]
    IN  \/ size = 0
        \/ (2 * alphaPct * n) * (2 * alphaPct * n)
              <= (100 + alphaPct) * (100 + alphaPct) * size

\* C33: the entropy score that calculateWindowEntropy computes for a window
\* and a set of previous facts lies in [0, 1]
C33_EntropyScoreInUnitInterval ==
    applied.op = "calculateWindowEntropy" =>
      /\ applied.result.score[1] >= 0
      /\ ScoreAtMostOne(applied.result.score, EntityWeightPct)

(***************************************************************************)
(* Consolidation runs over a store whose level-0 facts do not change.      *)
(***************************************************************************)
\* run r read the store after run q had returned and stored consolidated
\* facts, and read the level-0 facts that run q had read
RunsAgainAfter(q, r) ==
    /\ runs[q].pc = "returned"
    /\ runs[q].stored # <<>>
    /\ runs[r].pc = "returned"
    /\ IdsOf(runs[q].stored) \subseteq Range(runs[r].factsAtStart)
    /\ runs[r].atomicFacts = runs[q].atomicFacts

\* C34: runConsolidation is idempotent on an unchanged store: a run that
\* follows a completed run over the same level-0 facts stores no further
\* consolidated fact, so the facts of level > 0 do not grow with the ticks
C34_SecondRunStoresNothing ==
    \A q \in 1..MaxRuns, r \in 1..MaxRuns :
       RunsAgainAfter(q, r) =>
          /\ runs[r].stored = <<>>
          /\ Len(SelectSeq(facts, LAMBDA f : f.level > 0)) = Len(runs[q].stored)

\* the runs that have read the level-0 facts and have not returned or thrown
RunsInProgress == {r \in 1..MaxRuns : runs[r].pc \in {"consolidate", "store"}}

\* C35: at most one runConsolidation is in progress at any time: a tick or a
\* call that arrives while a run awaits the Consolidation LLM starts no
\* second run over the same level-0 facts
C35_AtMostOneRunInProgress ==
    \A q \in RunsInProgress, r \in RunsInProgress : q = r

(***************************************************************************)
(* processTranscript calls that interleave at their LLM calls, on a store  *)
(* that is empty before the first of them.                                 *)
(***************************************************************************)
InitInterleave ==
    /\ config = PipelineConfig(TRUE, TRUE, TRUE, FALSE, DefaultRetrieval)
    /\ timer = FALSE
    /\ facts = <<>>
    /\ windows = <<>>
    /\ stats = <<>>
    /\ nextId = 1
    /\ calls = [c \in 1..MaxCalls |-> IdleCall]
    /\ runs = [r \in 1..MaxRuns |-> IdleRun]
    /\ searches = <<>>
    /\ now = Today
    /\ storeFaults = 0
    /\ llmFaults = 0
    /\ applied = NotApplied

NextInterleave ==
    \/ \E c \in 1..MaxCalls, t \in Transcripts : ProcessTranscript(c, t, SessionFileOf(c))
    \/ \E c \in 1..MaxCalls : \E i \in calls[c].pending, resp \in ExtractorResponses :
          LLMExtractSettles(c, i, resp)
    \/ \E c \in 1..MaxCalls : ProcessTranscriptStore(c)

SpecInterleave == InitInterleave /\ [][NextInterleave]_vars

\* the windows the entropy filter keeps of the transcript of `call` when the
\* store holds the facts previousFacts
KeptOver(call, previousFacts) ==
    WindowsToProcess(filterWindowsByEntropy(
                         createConversationWindows(call.transcript, WindowSize, Stride),
                         previousFacts))

\* the windows kept by the calls a and b are those of the serial execution
\* of a, on the empty store, and then b, on the store with the facts of a
SerialOrder(a, b) ==
    /\ calls[a].windowsToProcess = KeptOver(calls[a], <<>>)
    /\ calls[b].windowsToProcess = KeptOver(calls[b], calls[a].stored)

\* C36: two processTranscript calls that interleave at their LLM calls leave
\* the store in a state that a serial execution of the two calls produces:
\* the windows each call has kept, and so the facts it has extracted and
\* stored, are those of one of the two serial orders
C36_InterleavedCallsSerializable ==
    \A a \in 1..MaxCalls, b \in 1..MaxCalls :
       (a < b /\ calls[a].pc = "returned" /\ calls[b].pc = "returned") =>
          SerialOrder(a, b) \/ SerialOrder(b, a)

(***************************************************************************)
(* The loops of processTranscript, one iteration per step: the loop of     *)
(* createConversationWindows over the turns, the entropy filter, the loop  *)
(* of extractAtomicFactsBatch that cuts the kept windows into chunks, and  *)
(* the LLM calls, which all return.  The constructor takes every           *)
(* windowSize, stride and maxParallelWorkers.  The windows and the chunks  *)
(* that the loops push are counted up to MaxLoopPushes, the iterations     *)
(* modulo 2.                                                               *)
(***************************************************************************)
MaxLoopTurns == 4

MaxLoopStep == 2

MaxLoopPushes == 5

Pushed(count) == IF count < MaxLoopPushes THEN count + 1 ELSE MaxLoopPushes

InitLoops ==
    /\ config = PipelineConfig(TRUE, TRUE, TRUE, FALSE, DefaultRetrieval)
    /\ timer = FALSE
    /\ facts = <<>>
    /\ windows = <<>>
    /\ stats = <<>>
    /\ nextId = 1
    /\ calls = [c \in 1..MaxCalls |-> IdleCall]
    /\ runs = [r \in 1..MaxRuns |-> IdleRun]
    /\ searches = <<>>
    /\ now = Today
    /\ storeFaults = 0
    /\ llmFaults = 0
    /\ \E turns \in 0..MaxLoopTurns, windowSize \in 0..MaxLoopStep,
          stride \in 0..MaxLoopStep, maxParallelWorkers \in 0..MaxLoopStep :
         applied = [op |-> "processTranscript", pc |-> "createConversationWindows",
                    turns |-> turns, windowSize |-> windowSize, stride |-> stride,
                    maxParallelWorkers |-> maxParallelWorkers,
                    i |-> 0, iterations |-> 0, windows |-> 0, windowsToProcess |-> 0,
                    chunks |-> 0]

\* for (let i = 0; i < turns.length; i += stride): a window is pushed when
\* turns.slice(i, i + windowSize) is not empty
WindowLoopStep ==
    /\ applied.op = "processTranscript"
    /\ applied.pc = "createConversationWindows"
    /\ applied' = IF applied.i < applied.turns
                  THEN [applied EXCEPT
                          !.windows = IF applied.windowSize > 0 THEN Pushed(@) ELSE @,
                          !.i = @ + applied.stride,
                          !.iterations = (@ + 1) % 2]
                  ELSE [applied EXCEPT !.pc = "filterWindowsByEntropy"]
    /\ UNCHANGED <<config, timer, facts, windows, stats, calls, runs, searches,
                   nextId, now, storeFaults, llmFaults>>

\* the filter keeps some of the windows
FilterStep ==
    /\ applied.op = "processTranscript"
    /\ applied.pc = "filterWindowsByEntropy"
    /\ \E kept \in 0..applied.windows :
         applied' = [applied EXCEPT !.pc = "extractAtomicFactsBatch",
                                    !.windowsToProcess = kept,
                                    !.i = 0]
    /\ UNCHANGED <<config, timer, facts, windows, stats, calls, runs, searches,
                   nextId, now, storeFaults, llmFaults>>

\* for (let i = 0; i < windows.length; i += maxConcurrent) chunks.push(...)
ChunkLoopStep ==
    /\ applied.op = "processTranscript"
    /\ applied.pc = "extractAtomicFactsBatch"
    /\ applied' = IF applied.i < applied.windowsToProcess
                  THEN [applied EXCEPT !.chunks = Pushed(@),
                                       !.i = @ + applied.maxParallelWorkers,
                                       !.iterations = (@ + 1) % 2]
                  ELSE [applied EXCEPT !.pc = "extract"]
    /\ UNCHANGED <<config, timer, facts, windows, stats, calls, runs, searches,
                   nextId, now, storeFaults, llmFaults>>

\* for (const chunk of chunks) await Promise.all(...): the LLM calls of a
\* chunk return; after the last chunk the facts are stored and the call returns
ChunkReturns ==
    /\ applied.op = "processTranscript"
    /\ applied.pc = "extract"
    /\ applied' = IF applied.chunks > 0
                  THEN [applied EXCEPT !.chunks = @ - 1]
                  ELSE [applied EXCEPT !.pc = "returned"]
    /\ UNCHANGED <<config, timer, facts, windows, stats, calls, runs, searches,
                   nextId, now, storeFaults, llmFaults>>

NextLoops ==
    \/ WindowLoopStep
    \/ FilterStep
    \/ ChunkLoopStep
    \/ ChunkReturns

\* the call is not suspended in a loop: every iteration is taken
SpecLoops == InitLoops /\ [][NextLoops]_vars /\ WF_vars(NextLoops)

\* C37: processTranscript terminates for every finite transcript and every
\* configuration the constructor accepts when each LLM call returns: the
\* loops of createConversationWindows and extractAtomicFactsBatch end, also
\* for stride 0 and maxParallelWorkers 0
C37_ProcessTranscriptTerminates ==
    <>(applied.op = "processTranscript" /\ applied.pc = "returned")

(***************************************************************************)
(* Groups of similar facts in the input of clusterAtomicFacts.             *)
(***************************************************************************)
\* the facts fs[i], i in group, are similar to one another and as many as a
\* cluster may have
SimilarGroup(fs, group, cfg) ==
    /\ Cardinality(group) >= cfg.minFactsForCluster
    /\ Cardinality(group) <= cfg.maxFactsPerCluster
    /\ \A i \in group, j \in group :
          i # j => RLeq(cfg.similarityThreshold, calculateFactSimilarity(fs[i], fs[j], cfg))

\* C38: when the input of clusterAtomicFacts contains a group of at least
\* minFactsForCluster and at most maxFactsPerCluster facts that are pairwise
\* similar, at least one cluster is returned
C38_SimilarGroupGivesCluster ==
    applied.op = "clusterAtomicFacts" =>
       ((\E group \in SUBSET (1..Len(applied.facts)) :
            SimilarGroup(applied.facts, group, applied.config))
          => applied.result # <<>>)

(***************************************************************************)
(* The facts of a retrieval result.                                        *)
(***************************************************************************)
\* C39: the facts array of a retrieval result holds no fact twice, also when
\* parents are included and the parent of a selected fact is itself selected
C39_NoFactTwiceInResult ==
    \A res \in SearchResults :
       \A i \in 1..Len(res.facts), j \in 1..Len(res.facts) :
          res.facts[i].fact.id = res.facts[j].fact.id => i = j

(***************************************************************************)
(* The ends of the relationships of an entity extraction.                  *)
(***************************************************************************)
\* C40: every relationship that extractEntitiesFromText returns has its
\* sourceEntityId and its targetEntityId among the ids of the entities of
\* the same result, also when the entities are cut to maxEntitiesPerChunk
\* or several of them have one normalized name
C40_RelationshipEndsReturned ==
    applied.op = "extractEntitiesFromText" =>
       \A k \in 1..Len(applied.result.relationships) :
          /\ applied.result.relationships[k].sourceEntityId \in IdsOf(applied.result.entities)
          /\ applied.result.relationships[k].targetEntityId \in IdsOf(applied.result.entities)

====
